---------------------------- MODULE Spec2Model ----------------------------
(***************************************************************************)
(* Model of the restaurant entity-resolution and merge engine:             *)
(*   scripts/merge_restaurant_lists.py   (normalizer, matcher, list merge) *)
(*   scripts/deduplicate_restaurants.py  (field merge, deduplication)      *)
(*                                                                         *)
(* Python values are represented as follows.                               *)
(*   str        a sequence of one-character strings, "" is << >>           *)
(*   None       None (for str/list valued fields), NoneN (numeric fields)  *)
(*   missing    Absent (str/list valued fields), AbsentN (numeric fields): *)
(*              the dict has no such key                                   *)
(*   list       a sequence                                                 *)
(*   dict       a record with one field per key the scripts read or write  *)
(* Numbers are naturals; ratings are in tenths (42 is 4.2).                *)
(***************************************************************************)
EXTENDS Integers, Sequences, FiniteSets, TLC

VARIABLES
    pc,                 \* position of the running script
    nyt_restaurants,    \* merge_restaurant_lists: primary input list
    nym_restaurants,    \* merge_restaurant_lists: secondary input list
    merged,             \* merge_restaurant_lists: the list being built / returned
    unsorted,           \* merge_restaurant_lists: merged as it is before the final sort
    nym_i,              \* merge_restaurant_lists: number of secondary records processed
    match_log,          \* match_idx of every processed secondary record, in order
    query,              \* find_matching_restaurant: the nym_restaurant argument
    pool,               \* find_matching_restaurant: the nyt_restaurants argument
    match_idx,          \* find_matching_restaurant: the returned index (NoneN for None)
    best_match_score,   \* find_matching_restaurant: best_match_score at the return
    restaurants,        \* deduplicate_restaurants: input list
    by_place_id,        \* deduplicate_restaurants: the groups of the first run, in key order
    duplicates_found,   \* deduplicate_restaurants: the audit entries of the first run
    deduplicated,       \* deduplicate_restaurants: result of the first run
    rededuplicated,     \* deduplicate_restaurants: result of a run on deduplicated
    group,              \* merge_restaurant_data: argument
    merged_record,      \* merge_restaurant_data: result
    texts,              \* normalize_name, normalize_address: the strings they are run on
    normalized,         \* the name key and the address key of each string
    renormalized,       \* the keys of the keys
    places_api,         \* the outcome of the Places API requests of one call
    place_record,       \* enrich_nym_restaurant, enrich_restaurant_data, update_restaurant_data: argument
    enriched_restaurant,\* the record the call returned
    GOOGLE_PLACES_API_KEY,\* enrich_nym_restaurants.py: whether the key is set
    input_file,         \* the list restaurants_merged.json holds
    objects,            \* the dicts json.load made, by the position they were loaded at
    main_restaurants,   \* main's list restaurants, as the objects it holds
    restaurants_to_enrich,\* the objects main enriches, in order
    progress,           \* iterations of main's loop done
    enriched_indices,   \* main's set of updated indices
    output_file         \* the list written to restaurants_enriched_nym.json

mergeVars == <<nyt_restaurants, nym_restaurants, merged, unsorted, nym_i, match_log>>
matchVars == <<query, pool, match_idx, best_match_score>>
dedupVars == <<restaurants, by_place_id, duplicates_found, deduplicated, rededuplicated>>
fieldVars == <<group, merged_record>>
normVars == <<texts, normalized, renormalized>>
enrichVars == <<places_api, place_record, enriched_restaurant>>
mainVars == <<GOOGLE_PLACES_API_KEY, input_file, objects, main_restaurants, restaurants_to_enrich, progress, enriched_indices, output_file>>

vars == <<pc, mergeVars, matchVars, dedupVars, fieldVars, normVars, enrichVars, mainVars>>

---------------------------------------------------------------------------
(* Python values *)

Absent == <<"<absent>">>
None == <<"<None>">>
AbsentN == -2
NoneN == -1

\* dict.get(key): None when the key is missing
Get(v) == IF v = Absent THEN None ELSE v
GetN(v) == IF v = AbsentN THEN NoneN ELSE v
\* dict.get(key, default)
GetD(v, d) == IF v = Absent THEN d ELSE v
GetDN(v, d) == IF v = AbsentN THEN d ELSE v
\* truth value of a str / list valued expression: None, "" and [] are false
Truthy(v) == v # Absent /\ v # None /\ v # << >>
\* truth value of a numeric expression: None and 0 are false
TruthyN(v) == v # AbsentN /\ v # NoneN /\ v # 0

---------------------------------------------------------------------------
(* str methods and the regular expressions of the normalizer *)

UpperCase == <<"A", "B">>
LowerCase == <<"a", "b">>
Letters == {"a", "b", "c", "d", "e", "i", "l", "n", "o", "p", "r", "s", "t", "u",
            "v", "w", "x", "y", "A", "B"}
Digits == {"0", "1", "2"}
WhiteSpace == {" "}
\* \w : letters, digits and the underscore
WordChars == Letters \cup Digits \cup {"_"}
IsWord(c) == c \in WordChars
\* \s
IsSpace(c) == c \in WhiteSpace

LowerChar(c) ==
    IF \E k \in 1..Len(UpperCase) : UpperCase[k] = c
    THEN LowerCase[CHOOSE k \in 1..Len(UpperCase) : UpperCase[k] = c]
    ELSE c

\* str.lower()
lower(s) == [k \in 1..Len(s) |-> LowerChar(s[k])]

RECURSIVE lstrip(_)
lstrip(s) == IF s # << >> /\ IsSpace(Head(s)) THEN lstrip(Tail(s)) ELSE s

RECURSIVE rstrip(_)
rstrip(s) ==
    IF s # << >> /\ IsSpace(s[Len(s)]) THEN rstrip(SubSeq(s, 1, Len(s) - 1)) ELSE s

\* str.strip()
strip(s) == rstrip(lstrip(s))

\* a in b, for str
IsSubstr(a, b) ==
    \E k \in 0..(Len(b) - Len(a)) : SubSeq(b, k + 1, k + Len(a)) = a

\* s[:n]
Prefix(s, n) == SubSeq(s, 1, IF Len(s) < n THEN Len(s) ELSE n)

IsWordOrSpace(c) == IsWord(c) \/ IsSpace(c)

\* re.sub(r'[^\w\s]', '', s)
RemovePunctuation(s) == SelectSeq(s, IsWordOrSpace)

\* re.sub(r'\s+', ' ', s)
RECURSIVE CollapseSpaces(_)
CollapseSpaces(s) ==
    IF s = << >> THEN << >>
    ELSE IF IsSpace(Head(s)) THEN <<" ">> \o CollapseSpaces(lstrip(s))
    ELSE <<Head(s)>> \o CollapseSpaces(Tail(s))

\* re.sub(r'\b<word>\b', repl, s) for a pattern made of word characters
RECURSIVE SubWordFrom(_, _, _, _)
SubWordFrom(s, k, word, repl) ==
    IF k > Len(s) THEN << >>
    ELSE IF /\ k + Len(word) - 1 <= Len(s)
            /\ SubSeq(s, k, k + Len(word) - 1) = word
            /\ (k = 1 \/ ~IsWord(s[k - 1]))
            /\ (k + Len(word) > Len(s) \/ ~IsWord(s[k + Len(word)]))
         THEN repl \o SubWordFrom(s, k + Len(word), word, repl)
         ELSE <<s[k]>> \o SubWordFrom(s, k + 1, word, repl)

SubWord(s, word, repl) == SubWordFrom(s, 1, word, repl)

---------------------------------------------------------------------------
(* merge_restaurant_lists.py: Normalizer *)

\* normalize_name(name); the argument is the value of .get('name', '')
normalize_name(name) ==
    IF ~Truthy(name) THEN << >>
    ELSE CollapseSpaces(RemovePunctuation(strip(lower(name))))

Street == <<"s", "t", "r", "e", "e", "t">>
Road == <<"r", "o", "a", "d">>
Drive == <<"d", "r", "i", "v", "e">>
Avenue == <<"a", "v", "e", "n", "u", "e">>
Boulevard == <<"b", "o", "u", "l", "e", "v", "a", "r", "d">>
Place == <<"p", "l", "a", "c", "e">>

StandardizeAbbreviations(s) ==
    SubWord(SubWord(SubWord(SubWord(SubWord(SubWord(s,
        Street, <<"s", "t">>),
        Avenue, <<"a", "v", "e">>),
        Boulevard, <<"b", "l", "v", "d">>),
        Place, <<"p", "l">>),
        Road, <<"r", "d">>),
        Drive, <<"d", "r">>)

\* normalize_address(address); the argument is the value of .get(..., '')
normalize_address(address) ==
    IF ~Truthy(address) THEN << >>
    ELSE CollapseSpaces(RemovePunctuation(
             StandardizeAbbreviations(strip(lower(address)))))

---------------------------------------------------------------------------
(* merge_restaurant_lists.py: Matcher *)

\* the last index of the maximal run of characters of a class that starts
\* at index k of s (k - 1 when s[k] is not of the class)
RECURSIVE RunEnd(_, _, _)
RunEnd(s, k, class) ==
    IF k <= Len(s) /\ s[k] \in class THEN RunEnd(s, k + 1, class) ELSE k - 1

\* the match of (\d+)\s+([\w\s]+) that starts at index k, as
\* <<group(1), group(2)>>, or None
StreetMatchAt(s, k) ==
    LET d == RunEnd(s, k, Digits)           \* \d+ is greedy
        w == RunEnd(s, d + 1, WhiteSpace)     \* \s+ is greedy
        g == RunEnd(s, w + 1, WordChars)      \* a word character after the spaces
    IN  IF d < k \/ w < d + 1 THEN None
        ELSE IF g > w
             THEN <<SubSeq(s, k, d), SubSeq(s, w + 1, RunEnd(s, w + 1, WordChars \cup WhiteSpace))>>
             \* \s+ gives back its last space to [\w\s]+
             ELSE IF w > d + 1 THEN <<SubSeq(s, k, d), SubSeq(s, w, w)>>
             ELSE None

\* re.search(r'(\d+)\s+([\w\s]+)', s): the leftmost match
RECURSIVE StreetSearchFrom(_, _)
StreetSearchFrom(s, k) ==
    IF k > Len(s) THEN None
    ELSE IF StreetMatchAt(s, k) # None THEN StreetMatchAt(s, k)
    ELSE StreetSearchFrom(s, k + 1)

StreetSearch(s) == StreetSearchFrom(s, 1)

StreetPrefixLen == 10

\* lines 62-68
name_match(nym_name, nyt_name) ==
    \/ nym_name = nyt_name
    \/ IsSubstr(nym_name, nyt_name)
    \/ IsSubstr(nyt_name, nym_name)

\* lines 83-88
street_match(nym_address, nyt_address) ==
    LET nym_street_match == StreetSearch(nym_address)
        nyt_street_match == StreetSearch(nyt_address)
    IN  /\ nym_street_match # None
        /\ nyt_street_match # None
        /\ nym_street_match[1] = nyt_street_match[1]
        /\ Prefix(strip(nym_street_match[2]), StreetPrefixLen)
             = Prefix(strip(nyt_street_match[2]), StreetPrefixLen)

\* lines 73-91
address_match(nym_address, nyt_address) ==
    IF nym_address # << >> /\ nyt_address # << >>
    THEN \/ nym_address = nyt_address
         \/ IsSubstr(nym_address, nyt_address)
         \/ IsSubstr(nyt_address, nym_address)
         \/ street_match(nym_address, nyt_address)
    ELSE TRUE

NameScore == 10
ExactNameBonus == 5
AddressScore == 10
ExactAddressBonus == 5

\* faulty variant of match_score: a candidate whose address fails the address tests
\* scores nothing
match_score_address_required(nym_name, nym_address, nyt_name, nyt_address) ==
    IF address_match(nym_address, nyt_address)
    THEN (NameScore + IF nym_name = nyt_name THEN ExactNameBonus ELSE 0)
         + AddressScore + IF nym_address = nyt_address THEN ExactAddressBonus ELSE 0
    ELSE 0

\* lines 93-102: the score of a candidate whose name matches
match_score(nym_name, nym_address, nyt_name, nyt_address) ==
    (NameScore + IF nym_name = nyt_name THEN ExactNameBonus ELSE 0)
    + (IF address_match(nym_address, nyt_address)
       THEN AddressScore + IF nym_address = nyt_address THEN ExactAddressBonus ELSE 0
       ELSE 0)

\* faulty variant of candidate_score: a candidate whose name does not match is
\* scored on its address instead of being skipped
candidate_score_no_skip(nym_name, nym_address, nyt_restaurant) ==
    LET nyt_name == normalize_name(GetD(nyt_restaurant.name, << >>))
        nyt_address == normalize_address(GetD(nyt_restaurant.formatted_address, << >>))
    IN  IF name_match(nym_name, nyt_name)
        THEN match_score(nym_name, nym_address, nyt_name, nyt_address)
        ELSE IF address_match(nym_address, nyt_address) THEN AddressScore ELSE 0

\* lines 59-102: one iteration of the loop; 0 when the iteration ends at `continue`
candidate_score(nym_name, nym_address, nyt_restaurant) ==
    LET nyt_name == normalize_name(GetD(nyt_restaurant.name, << >>))
        nyt_address == normalize_address(GetD(nyt_restaurant.formatted_address, << >>))
    IN  IF name_match(nym_name, nyt_name)
        THEN match_score(nym_name, nym_address, nyt_name, nyt_address)
        ELSE 0

\* faulty variant of is_better: a later candidate with an equal score replaces
\* the best so far
is_better_or_equal(score, best_score) == score >= best_score /\ score > 0

\* line 104
is_better(score, best_score) == score > best_score

\* lines 55-106: the loop from index idx on (1-based), as
\* <<best_match_idx, best_match_score>>
RECURSIVE best_match_from(_, _, _, _, _, _)
best_match_from(nym_name, nym_address, candidates, idx, best_idx, best_score) ==
    IF idx > Len(candidates) THEN <<best_idx, best_score>>
    ELSE LET score == candidate_score(nym_name, nym_address, candidates[idx])
         IN  IF is_better(score, best_score)
             THEN best_match_from(nym_name, nym_address, candidates, idx + 1, idx, score)
             ELSE best_match_from(nym_name, nym_address, candidates, idx + 1,
                                  best_idx, best_score)

MatchThreshold == 10

\* find_matching_restaurant, as <<index or NoneN, best_match_score>>; indices are 1-based
best_match(nym_restaurant, candidates) ==
    LET nym_name == normalize_name(GetD(nym_restaurant.name, << >>))
        nym_address == normalize_address(GetD(nym_restaurant.address, << >>))
    IN  IF nym_name = << >> THEN <<NoneN, 0>>
        ELSE LET best == best_match_from(nym_name, nym_address, candidates, 1, NoneN, 0)
             IN  IF best[2] >= MatchThreshold THEN best ELSE <<NoneN, best[2]>>

find_matching_restaurant(nym_restaurant, candidates) ==
    best_match(nym_restaurant, candidates)[1]

---------------------------------------------------------------------------
(* Restaurant dicts *)

\* a dict with none of the keys
NoKeys ==
    [name |-> Absent, address |-> Absent, formatted_address |-> Absent,
     website |-> Absent, description |-> Absent, phone |-> Absent,
     google_maps_url |-> Absent, cuisine |-> Absent, price_range |-> Absent,
     image_url |-> Absent, place_id |-> Absent, sources |-> Absent,
     rank |-> AbsentN, nyt_rank |-> AbsentN, nym_rank |-> AbsentN,
     combined_order |-> AbsentN, rating |-> AbsentN, review_count |-> AbsentN,
     google_rating |-> AbsentN, google_review_count |-> AbsentN,
     latitude |-> AbsentN, longitude |-> AbsentN, opening_hours |-> AbsentN,
     is_open_now |-> AbsentN, last_updated |-> AbsentN]

\* the sequences over S of length at most n
SeqUpTo(S, n) == UNION {[1..k -> S] : k \in 0..n}

\* x in list
Contains(list, x) == \E k \in 1..Len(list) : list[k] = x

DefaultOrder == 999
NymOffset == 100

\* the key of the final sort: x.get('combined_order', 999)
sort_key(restaurant) == GetDN(restaurant.combined_order, DefaultOrder)

\* faulty variant of insert_sorted: an element goes before the elements whose
\* key is equal
RECURSIVE insert_sorted_before_equal(_, _)
insert_sorted_before_equal(sorted, restaurant) ==
    IF sorted = << >> THEN <<restaurant>>
    ELSE IF sort_key(sorted[Len(sorted)]) < sort_key(restaurant)
         THEN Append(sorted, restaurant)
         ELSE Append(insert_sorted_before_equal(SubSeq(sorted, 1, Len(sorted) - 1), restaurant),
                     sorted[Len(sorted)])

\* list.sort(key=...) is stable: an element goes after the elements whose key
\* is not greater
RECURSIVE insert_sorted(_, _)
insert_sorted(sorted, restaurant) ==
    IF sorted = << >> THEN <<restaurant>>
    ELSE IF sort_key(sorted[Len(sorted)]) <= sort_key(restaurant)
         THEN Append(sorted, restaurant)
         ELSE Append(insert_sorted(SubSeq(sorted, 1, Len(sorted) - 1), restaurant),
                     sorted[Len(sorted)])

RECURSIVE sort_by_combined_order(_)
sort_by_combined_order(list) ==
    IF list = << >> THEN << >>
    ELSE insert_sorted(sort_by_combined_order(SubSeq(list, 1, Len(list) - 1)),
                       list[Len(list)])

\* comparing None with a number or with None raises TypeError; a list of two
\* or more elements compares every key
sort_raises(list) ==
    Len(list) >= 2 /\ \E k \in 1..Len(list) : sort_key(list[k]) = NoneN

---------------------------------------------------------------------------
(* merge_restaurant_lists.py: ListMerger *)

\* faulty variant of nyt_restaurant_after: restaurant = nyt_restaurant, without copy()
nyt_restaurant_aliased(nyt_restaurant, restaurant) == restaurant

\* line 123: restaurant is nyt_restaurant.copy(), a dict of its own, so the input
\* record holds what it held whatever lines 124-125, 135-142 and 172 write to restaurant
nyt_restaurant_after(nyt_restaurant, restaurant) == nyt_restaurant

\* lines 123-125
nyt_base(nyt_restaurant) ==
    [nyt_restaurant EXCEPT !.sources = <<"NYT">>,
                           !.nyt_rank = GetN(nyt_restaurant.rank)]

\* faulty variant of absorb_nym: the NYM address and website replace the base's values
absorb_nym_overwriting(restaurant, nym_restaurant) ==
    [restaurant EXCEPT
        !.sources = Append(@, "NYM"),
        !.nym_rank = GetN(nym_restaurant.nym_rank),
        !.formatted_address =
            IF Truthy(Get(nym_restaurant.address)) THEN nym_restaurant.address ELSE @,
        !.website =
            IF Truthy(Get(nym_restaurant.website)) THEN nym_restaurant.website ELSE @]

\* lines 135-142
absorb_nym(restaurant, nym_restaurant) ==
    [restaurant EXCEPT
        !.sources = Append(@, "NYM"),
        !.nym_rank = GetN(nym_restaurant.nym_rank),
        !.formatted_address =
            IF ~Truthy(Get(@)) /\ Truthy(Get(nym_restaurant.address))
            THEN nym_restaurant.address ELSE @,
        !.website =
            IF ~Truthy(Get(@)) /\ Truthy(Get(nym_restaurant.website))
            THEN nym_restaurant.website ELSE @]

\* lines 145-159
new_restaurant(nym_restaurant) ==
    [NoKeys EXCEPT
        !.name = Get(nym_restaurant.name),
        !.sources = <<"NYM">>,
        !.nym_rank = GetN(nym_restaurant.nym_rank),
        !.formatted_address = Get(nym_restaurant.address),
        !.website = Get(nym_restaurant.website),
        !.description = GetD(nym_restaurant.description, << >>),
        !.rank = NoneN,
        !.rating = NoneN,
        !.review_count = NoneN,
        !.price_range = None,
        !.cuisine = None,
        !.image_url = None]

\* faulty variant of list_combined_order: the NYM rank without the offset
list_combined_order_no_offset(restaurant) ==
    IF Contains(GetD(restaurant.sources, << >>), "NYT")
    THEN GetDN(restaurant.nyt_rank, DefaultOrder)
    ELSE IF Contains(GetD(restaurant.sources, << >>), "NYM")
         THEN GetDN(restaurant.nym_rank, DefaultOrder)
         ELSE DefaultOrder

\* lines 164-172: the combined_order stored in a record of merged
list_combined_order(restaurant) ==
    IF Contains(GetD(restaurant.sources, << >>), "NYT")
    THEN GetDN(restaurant.nyt_rank, DefaultOrder)
    ELSE IF Contains(GetD(restaurant.sources, << >>), "NYM")
         THEN NymOffset + GetDN(restaurant.nym_rank, DefaultOrder)
         ELSE DefaultOrder

\* line 169: 100 + None raises TypeError
list_combined_order_raises(restaurant) ==
    /\ ~Contains(GetD(restaurant.sources, << >>), "NYT")
    /\ Contains(GetD(restaurant.sources, << >>), "NYM")
    /\ GetDN(restaurant.nym_rank, DefaultOrder) = NoneN

with_combined_order(list) ==
    [k \in 1..Len(list) |-> [list[k] EXCEPT !.combined_order = list_combined_order(list[k])]]

\* lines 121-127
LoadNyt ==
    /\ pc = "merge_nyt"
    /\ merged' = [k \in 1..Len(nyt_restaurants) |-> nyt_base(nyt_restaurants[k])]
    /\ nyt_restaurants' = [k \in 1..Len(nyt_restaurants) |->
                               nyt_restaurant_after(nyt_restaurants[k], merged'[k])]
    /\ pc' = "merge_nym"
    /\ UNCHANGED <<nym_restaurants, unsorted, nym_i, match_log>>
    /\ UNCHANGED <<matchVars, dedupVars, fieldVars, normVars, enrichVars, mainVars>>

\* lines 130-160: one iteration of the loop over nym_restaurants
MatchNym ==
    /\ pc = "merge_nym"
    /\ nym_i < Len(nym_restaurants)
    /\ LET nym_restaurant == nym_restaurants[nym_i + 1]
           idx == find_matching_restaurant(nym_restaurant, merged)
       IN  /\ merged' = IF idx # NoneN
                        THEN [merged EXCEPT ![idx] = absorb_nym(@, nym_restaurant)]
                        ELSE Append(merged, new_restaurant(nym_restaurant))
           /\ match_log' = Append(match_log, idx)
           /\ nyt_restaurants' = [k \in 1..Len(nyt_restaurants) |->
                                      IF k = idx
                                      THEN nyt_restaurant_after(nyt_restaurants[k], merged'[k])
                                      ELSE nyt_restaurants[k]]
    /\ nym_i' = nym_i + 1
    /\ UNCHANGED <<pc, nym_restaurants, unsorted>>
    /\ UNCHANGED <<matchVars, dedupVars, fieldVars, normVars, enrichVars, mainVars>>

\* lines 162-177
FinishMerge ==
    /\ pc = "merge_nym"
    /\ nym_i = Len(nym_restaurants)
    /\ IF \/ \E k \in 1..Len(merged) : list_combined_order_raises(merged[k])
          \/ sort_raises(with_combined_order(merged))
       THEN pc' = "merge_raised" /\ UNCHANGED <<merged, unsorted, nyt_restaurants>>
       ELSE /\ pc' = "merge_done"
            /\ unsorted' = with_combined_order(merged)
            /\ merged' = sort_by_combined_order(with_combined_order(merged))
            /\ nyt_restaurants' = [k \in 1..Len(nyt_restaurants) |->
                                       nyt_restaurant_after(nyt_restaurants[k], unsorted'[k])]
    /\ UNCHANGED <<nym_restaurants, nym_i, match_log>>
    /\ UNCHANGED <<matchVars, dedupVars, fieldVars, normVars, enrichVars, mainVars>>

---------------------------------------------------------------------------
(* deduplicate_restaurants.py: FieldMerger *)

TagOrder == <<"NYM", "NYT">>

\* sorted(list(all_sources)) for a set of source tags
sorted_tags(all_sources) == SelectSeq(TagOrder, LAMBDA t : t \in all_sources)

\* lines 26-32: a sources value that is not a list and is false adds nothing
source_set(restaurant) ==
    LET sources == GetD(restaurant.sources, << >>)
    IN  IF sources = None THEN {} ELSE {sources[k] : k \in 1..Len(sources)}

Min(S) == CHOOSE x \in S : \A y \in S : x <= y
Max(S) == CHOOSE x \in S : \A y \in S : x >= y

\* lines 45-50
data_combined_order(restaurant) ==
    IF TruthyN(GetN(restaurant.nyt_rank)) THEN restaurant.nyt_rank
    ELSE IF TruthyN(GetN(restaurant.nym_rank)) THEN NymOffset + restaurant.nym_rank
    ELSE DefaultOrder

\* faulty variant of merge_base: the greatest rank of the group
merge_base_max(list) ==
    LET all_sources == UNION {source_set(list[k]) : k \in 1..Len(list)}
        nyt_ranks == {list[k].nyt_rank : k \in {j \in 1..Len(list) : TruthyN(list[j].nyt_rank)}}
        nym_ranks == {list[k].nym_rank : k \in {j \in 1..Len(list) : TruthyN(list[j].nym_rank)}}
        ranked == [list[1] EXCEPT
                      !.sources = sorted_tags(all_sources),
                      !.nyt_rank = IF nyt_ranks # {} THEN Max(nyt_ranks) ELSE @,
                      !.nym_rank = IF nym_ranks # {} THEN Max(nym_ranks) ELSE @]
    IN  [ranked EXCEPT !.combined_order = data_combined_order(ranked)]

\* lines 23-50: the base record with the sources, ranks and order of the group
merge_base(list) ==
    LET all_sources == UNION {source_set(list[k]) : k \in 1..Len(list)}
        nyt_ranks == {list[k].nyt_rank : k \in {j \in 1..Len(list) : TruthyN(list[j].nyt_rank)}}
        nym_ranks == {list[k].nym_rank : k \in {j \in 1..Len(list) : TruthyN(list[j].nym_rank)}}
        ranked == [list[1] EXCEPT
                      !.sources = sorted_tags(all_sources),
                      !.nyt_rank = IF nyt_ranks # {} THEN Min(nyt_ranks) ELSE @,
                      !.nym_rank = IF nym_ranks # {} THEN Min(nym_ranks) ELSE @]
    IN  [ranked EXCEPT !.combined_order = data_combined_order(ranked)]

\* faulty variant of prefer: a non-empty candidate always wins
prefer_latest(merged_value, value) ==
    IF Truthy(Get(value)) THEN value ELSE merged_value

\* line 57
prefer(merged_value, value) ==
    IF ~Truthy(Get(merged_value)) /\ Truthy(Get(value)) THEN value ELSE merged_value

\* lines 61, 66, 81: a non-null candidate that is greater, or the first one
replaces(value, merged_value) ==
    TruthyN(value) /\ (~TruthyN(merged_value) \/ value > merged_value)

\* faulty variant of merge_ratings: the review count is adopted together with
\* the rating, from the record whose rating wins
merge_ratings_paired(m, r) ==
    [m EXCEPT
        !.rating = IF replaces(r.rating, m.rating) THEN r.rating ELSE @,
        !.google_rating =
            IF replaces(r.rating, m.rating) THEN GetDN(r.google_rating, r.rating) ELSE @,
        !.review_count = IF replaces(r.rating, m.rating) THEN r.review_count ELSE @,
        !.google_review_count =
            IF replaces(r.rating, m.rating)
            THEN GetDN(r.google_review_count, r.review_count) ELSE @]

\* lines 60-68
merge_ratings(m, r) ==
    [m EXCEPT
        !.rating = IF replaces(r.rating, m.rating) THEN r.rating ELSE @,
        !.google_rating =
            IF replaces(r.rating, m.rating) THEN GetDN(r.google_rating, r.rating) ELSE @,
        !.review_count = IF replaces(r.review_count, m.review_count) THEN r.review_count ELSE @,
        !.google_review_count =
            IF replaces(r.review_count, m.review_count)
            THEN GetDN(r.google_review_count, r.review_count) ELSE @]

\* faulty variant of merge_one: the coordinates of every later record that has a
\* latitude replace the ones held so far
merge_one_latest_coordinates(m, r) ==
    [merge_ratings(m, r) EXCEPT
        !.name = prefer(@, r.name),
        !.description = prefer(@, r.description),
        !.formatted_address = prefer(@, r.formatted_address),
        !.website = prefer(@, r.website),
        !.phone = prefer(@, r.phone),
        !.google_maps_url = prefer(@, r.google_maps_url),
        !.cuisine = prefer(@, r.cuisine),
        !.price_range = prefer(@, r.price_range),
        !.image_url = prefer(@, r.image_url),
        !.latitude = IF TruthyN(r.latitude) THEN r.latitude ELSE @,
        !.longitude = IF TruthyN(r.latitude) THEN r.longitude ELSE @,
        !.opening_hours =
            IF ~TruthyN(m.opening_hours) /\ TruthyN(r.opening_hours)
            THEN r.opening_hours ELSE @,
        !.is_open_now =
            IF ~TruthyN(m.opening_hours) /\ TruthyN(r.opening_hours)
            THEN GetN(r.is_open_now) ELSE @,
        !.last_updated = IF replaces(r.last_updated, m.last_updated) THEN r.last_updated ELSE @]

\* lines 53-82: one iteration of the loop over restaurants[1:]
merge_one(m, r) ==
    [merge_ratings(m, r) EXCEPT
        !.name = prefer(@, r.name),
        !.description = prefer(@, r.description),
        !.formatted_address = prefer(@, r.formatted_address),
        !.website = prefer(@, r.website),
        !.phone = prefer(@, r.phone),
        !.google_maps_url = prefer(@, r.google_maps_url),
        !.cuisine = prefer(@, r.cuisine),
        !.price_range = prefer(@, r.price_range),
        !.image_url = prefer(@, r.image_url),
        !.latitude = IF ~TruthyN(m.latitude) /\ TruthyN(r.latitude) THEN r.latitude ELSE @,
        !.longitude = IF ~TruthyN(m.latitude) /\ TruthyN(r.latitude) THEN r.longitude ELSE @,
        !.opening_hours =
            IF ~TruthyN(m.opening_hours) /\ TruthyN(r.opening_hours)
            THEN r.opening_hours ELSE @,
        !.is_open_now =
            IF ~TruthyN(m.opening_hours) /\ TruthyN(r.opening_hours)
            THEN GetN(r.is_open_now) ELSE @,
        !.last_updated = IF replaces(r.last_updated, m.last_updated) THEN r.last_updated ELSE @]

\* line 73: r['longitude'] raises KeyError when r has no such key
merge_one_raises(m, r) ==
    ~TruthyN(m.latitude) /\ TruthyN(r.latitude) /\ r.longitude = AbsentN

RECURSIVE merge_from(_, _, _)
merge_from(m, list, k) ==
    IF k > Len(list) THEN m ELSE merge_from(merge_one(m, list[k]), list, k + 1)

RECURSIVE merge_from_raises(_, _, _)
merge_from_raises(m, list, k) ==
    /\ k <= Len(list)
    /\ \/ merge_one_raises(m, list[k])
       \/ merge_from_raises(merge_one(m, list[k]), list, k + 1)

\* merge_restaurant_data(restaurants); {} is the dict with no keys
merge_restaurant_data(list) ==
    IF list = << >> THEN NoKeys
    ELSE IF Len(list) = 1 THEN list[1]
    ELSE merge_from(merge_base(list), list, 2)

merge_restaurant_data_raises(list) ==
    Len(list) > 1 /\ merge_from_raises(merge_base(list), list, 2)

\* faulty variant of restaurants_after_merge: merged = restaurants[0], without copy()
restaurants_written_through(list) ==
    IF Len(list) > 1 THEN [list EXCEPT ![1] = merge_restaurant_data(list)] ELSE list

\* lines 19-23: merged is restaurants[0].copy() and the loop of lines 53-82 only reads
\* the records of the list, so the list holds after the call what it held before
restaurants_after_merge(list) == list

---------------------------------------------------------------------------
(* deduplicate_restaurants.py: Deduplicator *)

DecimalDigits == <<"0", "1", "2", "3", "4", "5", "6", "7", "8", "9">>

\* str(n) for n >= 0
RECURSIVE str(_)
str(n) == IF n < 10 THEN <<DecimalDigits[n + 1]>>
          ELSE str(n \div 10) \o <<DecimalDigits[(n % 10) + 1]>>

\* line 92: the list no_place_id, which nothing is appended to
no_place_id == << >>

NoPlaceIdPrefix == <<"n", "o", "-", "p", "l", "a", "c", "e", "-", "i", "d", "-">>

\* lines 100-101: None has no lower()
key_raises(restaurant) ==
    /\ ~Truthy(Get(restaurant.place_id))
    /\ \/ GetD(restaurant.name, << >>) = None
       \/ GetD(restaurant.formatted_address, << >>) = None

\* lines 95-102: the key a record is grouped under
group_key(restaurant) ==
    IF Truthy(Get(restaurant.place_id)) THEN restaurant.place_id
    ELSE LET name == strip(lower(GetD(restaurant.name, << >>)))
             address == strip(lower(GetD(restaurant.formatted_address, << >>)))
         IN  IF name # << >> /\ address # << >>
             THEN name \o <<":", ":">> \o address
             ELSE NoPlaceIdPrefix \o str(Len(no_place_id))

\* lines 94-103: by_place_id as the sequence of its items, in insertion order
RECURSIVE group_by_key(_, _, _)
group_by_key(list, k, groups) ==
    IF k > Len(list) THEN groups
    ELSE LET key == group_key(list[k])
         IN  IF \E g \in 1..Len(groups) : groups[g].key = key
             THEN group_by_key(list, k + 1,
                      [g \in 1..Len(groups) |->
                          IF groups[g].key = key
                          THEN [groups[g] EXCEPT !.group = Append(@, list[k])]
                          ELSE groups[g]])
             ELSE group_by_key(list, k + 1,
                      Append(groups, [key |-> key, group |-> <<list[k]>>]))

\* lines 94-119: the groups hold the input's own records, those that are copied
\* (line 119) are not written to, the others go through merge_restaurant_data
restaurants_after(list) ==
    [k \in 1..Len(list) |->
        LET group_of_k == SelectSeq(list, LAMBDA r : group_key(r) = group_key(list[k]))
        IN  IF \A j \in 1..(k - 1) : group_key(list[j]) # group_key(list[k])
            THEN restaurants_after_merge(group_of_k)[1]
            ELSE list[k]]

\* lines 109-119
merge_groups(groups) ==
    [g \in 1..Len(groups) |->
        IF Len(groups[g].group) > 1 THEN merge_restaurant_data(groups[g].group)
        ELSE groups[g].group[1]]

\* lines 111-115
audit(groups) ==
    LET entry(g) == [place_id |-> g.key, count |-> Len(g.group),
                     names |-> [k \in 1..Len(g.group) |-> Get(g.group[k].name)]]
        dup == SelectSeq(groups, LAMBDA g : Len(g.group) > 1)
    IN  [k \in 1..Len(dup) |-> entry(dup[k])]

deduplicate_raises(list) ==
    \/ \E k \in 1..Len(list) : key_raises(list[k])
    \/ LET groups == group_by_key(list, 1, << >>)
       IN  \/ \E g \in 1..Len(groups) : merge_restaurant_data_raises(groups[g].group)
           \/ sort_raises(merge_groups(groups))

\* deduplicate_restaurants(restaurants)[0]
deduplicate_restaurants(list) ==
    sort_by_combined_order(merge_groups(group_by_key(list, 1, << >>)))

\* deduplicate_restaurants(restaurants)
Deduplicate ==
    /\ pc = "dedup"
    /\ IF deduplicate_raises(restaurants)
       THEN /\ pc' = "dedup_raised"
            /\ UNCHANGED <<restaurants, by_place_id, duplicates_found, deduplicated>>
       ELSE /\ pc' = "dedup_done"
            /\ by_place_id' = group_by_key(restaurants, 1, << >>)
            /\ duplicates_found' = audit(group_by_key(restaurants, 1, << >>))
            /\ deduplicated' = deduplicate_restaurants(restaurants)
            /\ restaurants' = restaurants_after(restaurants)
    /\ UNCHANGED rededuplicated
    /\ UNCHANGED <<mergeVars, matchVars, fieldVars, normVars, enrichVars, mainVars>>

\* deduplicate_restaurants run on the list a first run returned
DeduplicateAgain ==
    /\ pc = "dedup_done"
    /\ IF deduplicate_raises(deduplicated)
       THEN pc' = "rededup_raised" /\ UNCHANGED <<rededuplicated, deduplicated>>
       ELSE /\ pc' = "rededup_done"
            /\ rededuplicated' = deduplicate_restaurants(deduplicated)
            /\ deduplicated' = restaurants_after(deduplicated)
    /\ UNCHANGED <<restaurants, by_place_id, duplicates_found>>
    /\ UNCHANGED <<mergeVars, matchVars, fieldVars, normVars, enrichVars, mainVars>>

\* merge_restaurant_data(group)
MergeGroup ==
    /\ pc = "fields"
    /\ IF merge_restaurant_data_raises(group)
       THEN pc' = "fields_raised" /\ UNCHANGED <<merged_record, group>>
       ELSE /\ pc' = "fields_done"
            /\ merged_record' = merge_restaurant_data(group)
            /\ group' = restaurants_after_merge(group)
    /\ UNCHANGED <<mergeVars, matchVars, dedupVars, normVars, enrichVars, mainVars>>

\* find_matching_restaurant(query, pool)
FindMatch ==
    /\ pc = "match"
    /\ pc' = "match_done"
    /\ match_idx' = find_matching_restaurant(query, pool)
    /\ best_match_score' = best_match(query, pool)[2]
    /\ UNCHANGED <<query, pool>>
    /\ UNCHANGED <<mergeVars, dedupVars, fieldVars, normVars, enrichVars, mainVars>>

---------------------------------------------------------------------------
(* merge_restaurant_lists: the lists it is run on *)

MaxNyt == 2
MaxNym == 2

\* entries of restaurants_parsed.json
NytSamples ==
    { [NoKeys EXCEPT !.name = <<"A", ".">>, !.rank = 1],
      [NoKeys EXCEPT !.name = <<"b">>, !.rank = 2,
                     !.formatted_address = <<"1", " ", "x">>, !.website = <<"w">>],
      [NoKeys EXCEPT !.name = <<"a", "b">>, !.formatted_address = <<"2", " ", "x">>],
      [NoKeys EXCEPT !.name = << >>, !.rank = 2] }

\* entries of nym_restaurants_raw.json
NymSamples ==
    { [NoKeys EXCEPT !.name = <<"a">>, !.nym_rank = 1,
                     !.address = <<"1", " ", "x">>, !.website = <<"y">>],
      [NoKeys EXCEPT !.name = <<"A">>, !.nym_rank = 2],
      [NoKeys EXCEPT !.name = <<"c">>, !.nym_rank = 1, !.address = <<"2", " ", "x">>],
      [NoKeys EXCEPT !.name = <<"c">>, !.address = None],
      [NoKeys EXCEPT !.nym_rank = 2] }

IdleMatch ==
    /\ query = NoKeys /\ pool = << >> /\ match_idx = NoneN /\ best_match_score = 0

IdleDedup ==
    /\ restaurants = << >> /\ by_place_id = << >> /\ duplicates_found = << >>
    /\ deduplicated = << >> /\ rededuplicated = << >>

IdleFields ==
    /\ group = << >> /\ merged_record = NoKeys

IdleNormalize ==
    /\ texts = << >> /\ normalized = << >> /\ renormalized = << >>

IdleEnrich ==
    /\ places_api = << >> /\ place_record = NoKeys /\ enriched_restaurant = NoKeys

IdleMain ==
    /\ GOOGLE_PLACES_API_KEY = FALSE /\ input_file = << >> /\ objects = << >>
    /\ main_restaurants = << >> /\ restaurants_to_enrich = << >> /\ progress = 0
    /\ enriched_indices = {} /\ output_file = << >>

IdleMerge ==
    /\ nyt_restaurants = << >> /\ nym_restaurants = << >> /\ merged = << >>
    /\ unsorted = << >>
    /\ nym_i = 0 /\ match_log = << >>

InitMerge ==
    /\ pc = "merge_nyt"
    /\ nyt_restaurants \in SeqUpTo(NytSamples, MaxNyt)
    /\ nym_restaurants \in SeqUpTo(NymSamples, MaxNym)
    /\ merged = << >>
    /\ unsorted = << >>
    /\ nym_i = 0
    /\ match_log = << >>
    /\ IdleMatch /\ IdleDedup /\ IdleFields /\ IdleNormalize /\ IdleEnrich /\ IdleMain

NextMerge == LoadNyt \/ MatchNym \/ FinishMerge

SpecMerge == InitMerge /\ [][NextMerge]_vars

---------------------------------------------------------------------------
(* find_matching_restaurant: the arguments it is run on *)

MaxPool == 2

QueryNames == {Absent, <<"a">>, <<"a", "b">>}
QueryAddresses == {Absent, <<"1", " ", "x">>, <<"y", " ", "1", " ", "x">>}
QuerySamples ==
    {[NoKeys EXCEPT !.name = n, !.address = a] : n \in QueryNames, a \in QueryAddresses}

CandidateNames == {<< >>, <<"A", ".">>, <<"a", "b">>, <<"b">>}
CandidateAddresses ==
    {None, <<"1", " ", "x">>, <<"w", " ", "1", " ", "x">>, <<"2", " ", "x">>}
CandidateSamples ==
    {[NoKeys EXCEPT !.name = n, !.formatted_address = a, !.sources = <<"NYT">>] :
        n \in CandidateNames, a \in CandidateAddresses}

InitMatch ==
    /\ pc = "match"
    /\ query \in QuerySamples
    /\ pool \in SeqUpTo(CandidateSamples, MaxPool)
    /\ match_idx = NoneN
    /\ best_match_score = 0
    /\ IdleMerge /\ IdleDedup /\ IdleFields /\ IdleNormalize /\ IdleEnrich /\ IdleMain

NextMatch == FindMatch

SpecMatch == InitMatch /\ [][NextMatch]_vars

---------------------------------------------------------------------------
(* deduplicate_restaurants: the lists it is run on *)

MaxRecords == 3

\* entries of restaurants_enriched_nym.json
DedupSamples ==
    { NoKeys,
      [NoKeys EXCEPT !.name = <<"a">>, !.sources = <<"NYT">>, !.nyt_rank = 1,
                     !.combined_order = 1],
      [NoKeys EXCEPT !.formatted_address = <<"x">>, !.sources = <<"NYM">>,
                     !.nym_rank = 2, !.combined_order = 102],
      [NoKeys EXCEPT !.name = <<"a">>, !.formatted_address = <<"x">>,
                     !.sources = <<"NYT">>, !.nyt_rank = 2, !.combined_order = 2],
      [NoKeys EXCEPT !.name = <<"A", " ">>, !.formatted_address = <<"x">>,
                     !.sources = <<"NYM">>, !.nym_rank = 1, !.combined_order = 101],
      [NoKeys EXCEPT !.place_id = <<"p">>, !.name = <<"a">>,
                     !.formatted_address = <<"x">>, !.sources = <<"NYT">>,
                     !.nyt_rank = 1, !.combined_order = 1],
      [NoKeys EXCEPT !.place_id = <<"p">>, !.name = <<"b">>, !.sources = <<"NYM">>,
                     !.nym_rank = 1, !.combined_order = 101],
      [NoKeys EXCEPT !.place_id = << >>, !.name = <<"b">>,
                     !.formatted_address = <<"x">>, !.sources = <<"NYM">>,
                     !.nym_rank = 2, !.combined_order = 102],
      [NoKeys EXCEPT !.name = None, !.sources = <<"NYM">>, !.nym_rank = 1,
                     !.combined_order = 101],
      [NoKeys EXCEPT !.name = <<"c">>, !.formatted_address = None,
                     !.sources = <<"NYM">>, !.nym_rank = 2, !.combined_order = 102] }

InitDedup ==
    /\ pc = "dedup"
    /\ restaurants \in SeqUpTo(DedupSamples, MaxRecords)
    /\ by_place_id = << >>
    /\ duplicates_found = << >>
    /\ deduplicated = << >>
    /\ rededuplicated = << >>
    /\ IdleMerge /\ IdleMatch /\ IdleFields /\ IdleNormalize /\ IdleEnrich /\ IdleMain

NextDedup == Deduplicate \/ DeduplicateAgain

SpecDedup == InitDedup /\ [][NextDedup]_vars

---------------------------------------------------------------------------
(* merge_restaurant_data: the groups it is run on *)

MaxGroup == 3

SampleRatings == {NoneN, 0, 42, 46}
SampleReviewCounts == {AbsentN, 250, 300}
FieldSamples ==
    {[NoKeys EXCEPT !.place_id = <<"p">>, !.rating = x, !.review_count = c] :
        x \in SampleRatings, c \in SampleReviewCounts}

InitFields ==
    /\ pc = "fields"
    /\ group \in SeqUpTo(FieldSamples, MaxGroup)
    /\ merged_record = NoKeys
    /\ IdleMerge /\ IdleMatch /\ IdleDedup /\ IdleNormalize /\ IdleEnrich /\ IdleMain

NextFields == MergeGroup

SpecFields == InitFields /\ [][NextFields]_vars

---------------------------------------------------------------------------
(* Properties of merge_restaurant_lists *)

\* match_log holds indices into merged as it is during the loop, where the
\* records that come from the primary list are the first Len(nyt_restaurants)
IsBaseIndex(idx) == idx # NoneN /\ idx <= Len(nyt_restaurants)

\* C1: no record derived from the primary list is the match target of two
\* different secondary records of one merge pass.
C1_BaseAbsorbsAtMostOne ==
    pc = "merge_done" =>
        \A i, j \in 1..Len(match_log) :
            (i < j /\ IsBaseIndex(match_log[i])) => match_log[j] # match_log[i]

\* C10: a secondary record is matched only against records derived from the
\* primary list, so every returned record that is not derived from a primary
\* record carries exactly the source tag NYM.
C10_StandaloneNeverMatched ==
    pc = "merge_done" =>
        /\ \A i \in 1..Len(match_log) : match_log[i] = NoneN \/ IsBaseIndex(match_log[i])
        /\ \A k \in 1..Len(merged) :
               ~Contains(merged[k].sources, "NYT") => merged[k].sources = <<"NYM">>

---------------------------------------------------------------------------
(* Properties of find_matching_restaurant *)

QueryName == normalize_name(GetD(query.name, << >>))
QueryAddress == normalize_address(GetD(query.address, << >>))
PoolName(k) == normalize_name(GetD(pool[k].name, << >>))
PoolAddress(k) == normalize_address(GetD(pool[k].formatted_address, << >>))

\* equal, or one a substring of the other
NamesRelated(k) ==
    \/ QueryName = PoolName(k)
    \/ IsSubstr(QueryName, PoolName(k))
    \/ IsSubstr(PoolName(k), QueryName)

\* C7: an index is returned iff the query's normalized name is non-empty and
\* some candidate's normalized name is equal to or substring-related with it;
\* the returned candidate is always one whose name matches.
C7_MatchIffNameMatches ==
    pc = "match_done" =>
        /\ match_idx # NoneN <=>
               (QueryName # << >> /\ \E k \in 1..Len(pool) : NamesRelated(k))
        /\ match_idx # NoneN => NamesRelated(match_idx)

\* a match was returned although another candidate, whose name does not match,
\* has the query's address
C7_Witness ==
    /\ pc = "match_done"
    /\ match_idx # NoneN
    /\ \E k \in 1..Len(pool) :
           /\ ~NamesRelated(k)
           /\ QueryAddress # << >>
           /\ PoolAddress(k) = QueryAddress

PoolScore(k) == candidate_score(QueryName, QueryAddress, pool[k])

\* C8: the returned index is that of a candidate with the maximum score, and
\* of the first such candidate of the pool.
C8_FirstMaximum ==
    pc = "match_done" =>
        /\ match_idx # NoneN =>
               /\ best_match_score = PoolScore(match_idx)
               /\ \A k \in 1..Len(pool) : PoolScore(k) <= PoolScore(match_idx)
               /\ \A k \in 1..(match_idx - 1) : PoolScore(k) < PoolScore(match_idx)
        /\ (match_idx = NoneN /\ QueryName # << >>) =>
               \A k \in 1..Len(pool) : PoolScore(k) = 0

\* two candidates share the maximum score and the earlier one is returned
C8_Witness ==
    /\ pc = "match_done"
    /\ match_idx # NoneN
    /\ \E k \in (match_idx + 1)..Len(pool) : PoolScore(k) = best_match_score

\* C9: with equal normalized names and no address on at least one side, the
\* score is the name component (15) plus 10, without the +5 address bonus.
C9_NoBonusWithoutAddress ==
    (/\ pc = "match_done"
     /\ Len(pool) = 1
     /\ QueryName # << >>
     /\ QueryName = PoolName(1)
     /\ (QueryAddress = << >> \/ PoolAddress(1) = << >>))
    => best_match_score = NameScore + ExactNameBonus + AddressScore

---------------------------------------------------------------------------
(* Properties of deduplicate_restaurants *)

\* the record has a place_id, or both a name and an address
HasIdentity(restaurant) ==
    \/ Truthy(Get(restaurant.place_id))
    \/ /\ strip(lower(GetD(restaurant.name, << >>))) # << >>
       /\ strip(lower(GetD(restaurant.formatted_address, << >>))) # << >>

IndicesWithout(list) == {k \in 1..Len(list) : ~HasIdentity(list[k])}
IndicesWith(list) == {k \in 1..Len(list) : HasIdentity(list[k])}

\* C2: two records that have neither a place_id nor both a name and an address
\* are never placed in the same group.
C2_NoIdentityNeverGrouped ==
    pc = "dedup_done" =>
        \A g \in 1..Len(by_place_id) :
            Cardinality(IndicesWithout(by_place_id[g].group)) <= 1

\* C3: a run on the output of a first run returns the same set of records.
C3_DedupIdempotent ==
    pc = "rededup_done" =>
        {rededuplicated[k] : k \in 1..Len(rededuplicated)}
            = {deduplicated[k] : k \in 1..Len(deduplicated)}

\* C4: no two records of the output share a resolved identity key (place_id if
\* present, else name+address; a record with neither has a key of its own).
C4_OutputKeysDistinct ==
    pc = "dedup_done" =>
        \A i, j \in IndicesWith(deduplicated) :
            i # j => group_key(deduplicated[i]) # group_key(deduplicated[j])

\* C5: the length of the output is the number of distinct identity keys of the
\* input, where every record without identity has a key of its own.
C5_LengthIsDistinctKeys ==
    pc = "dedup_done" =>
        Len(deduplicated)
            = Cardinality({group_key(restaurants[k]) : k \in IndicesWith(restaurants)})
              + Cardinality(IndicesWithout(restaurants))

---------------------------------------------------------------------------
(* Properties of merge_restaurant_data *)

GroupRatings == {group[k].rating : k \in {j \in 1..Len(group) : TruthyN(group[j].rating)}}
GroupReviewCounts ==
    {group[k].review_count : k \in {j \in 1..Len(group) : TruthyN(group[j].review_count)}}

\* C6 (as stated): the merged rating and review_count come from one and the
\* same record of the group.
C6_PairFromOneRecord ==
    (pc = "fields_done" /\ Len(group) >= 1) =>
        \E k \in 1..Len(group) :
            /\ merged_record.rating = group[k].rating
            /\ merged_record.review_count = group[k].review_count

\* C6 (amended): the merged rating is the greatest non-null rating of the group
\* and, independently, the merged review_count is the greatest non-null
\* review_count of the group; the base's value stays when the group has none.
C6_EachFieldIsGroupMaximum ==
    (pc = "fields_done" /\ Len(group) >= 1) =>
        /\ merged_record.rating
             = IF GroupRatings # {} THEN Max(GroupRatings) ELSE group[1].rating
        /\ merged_record.review_count
             = IF GroupReviewCounts # {} THEN Max(GroupReviewCounts)
               ELSE group[1].review_count

\* the rating is adopted from the second record and the review_count stays
\* the first record's
C6_Witness ==
    /\ pc = "fields_done"
    /\ Len(group) = 2
    /\ TruthyN(group[1].rating)
    /\ group[2].rating > group[1].rating
    /\ TruthyN(group[2].review_count)
    /\ group[1].review_count > group[2].review_count
    /\ merged_record.rating = group[2].rating
    /\ merged_record.review_count = group[1].review_count

---------------------------------------------------------------------------
(* Properties of the sources field *)

\* the tags in the order of sorted(), each once
IsSortedTagSet(tags) ==
    tags = sorted_tags({tags[k] : k \in 1..Len(tags)})

\* C11: in every record returned by merge_restaurant_lists and by
\* deduplicate_restaurants the sources field is sorted and has no duplicate
\* tag, so a record contributed by both lists carries exactly NYM, NYT.
C11_SourcesSortedNoDuplicates ==
    /\ pc = "merge_done" =>
           \A k \in 1..Len(merged) : IsSortedTagSet(merged[k].sources)
    /\ pc = "dedup_done" =>
           \A k \in 1..Len(deduplicated) :
               LET sources == GetD(deduplicated[k].sources, << >>)
               IN  sources # None => IsSortedTagSet(sources)

---------------------------------------------------------------------------
(* Properties of records without a name *)

\* the name is missing, None or the empty string
HasNoName(restaurant) == ~Truthy(GetD(restaurant.name, << >>))

Nameless(list) == {k \in 1..Len(list) : HasNoName(list[k])}

\* C12: a record with no usable name takes no part in matching: in the
\* returned list every such record of either input list is a record of its
\* own, which absorbed no record and was absorbed by none.
C12_NamelessExcludedFromMatching ==
    pc = "merge_done" =>
        /\ \A k \in Nameless(merged) : Len(merged[k].sources) = 1
        /\ Cardinality(Nameless(merged)) =
               Cardinality(Nameless(nyt_restaurants)) + Cardinality(Nameless(nym_restaurants))

---------------------------------------------------------------------------
(* Properties of combined_order *)

HasRank(rank) == rank # AbsentN /\ rank # NoneN

\* the order rule: the NYT rank, else 100 + the NYM rank, else 999
OrderRule(restaurant) ==
    IF HasRank(restaurant.nyt_rank) THEN restaurant.nyt_rank
    ELSE IF HasRank(restaurant.nym_rank) THEN NymOffset + restaurant.nym_rank
    ELSE DefaultOrder

\* C13: the combined_order that merge_restaurant_lists and
\* merge_restaurant_data assign to a record is what the order rule gives for
\* the ranks of that record.
C13_OrderFollowsRule ==
    /\ pc = "merge_done" =>
           \A k \in 1..Len(merged) : merged[k].combined_order = OrderRule(merged[k])
    /\ (pc = "fields_done" /\ Len(group) > 1) =>
           merged_record.combined_order = OrderRule(merged_record)

\* the ranks of the record are absent or None
HasNoRanks(restaurant) ==
    ~HasRank(restaurant.nyt_rank) /\ ~HasRank(restaurant.nym_rank)

\* C14: merge_restaurant_lists never raises while it computes the order and
\* sorts, and a returned record without ranks has combined_order 999.
C14_OrderNeverFails ==
    /\ pc # "merge_raised"
    /\ pc = "merge_done" =>
           \A k \in 1..Len(merged) :
               HasNoRanks(merged[k]) => merged[k].combined_order = DefaultOrder

---------------------------------------------------------------------------
(* deduplicate_restaurants: lists of ranked records of three places *)

MaxRanked == 4

\* entries of restaurants_enriched_nym.json that carry a place_id and ranks
RankedSamples ==
    { [NoKeys EXCEPT !.place_id = <<"p">>, !.sources = <<"NYT">>, !.nyt_rank = 2,
                     !.combined_order = 2],
      [NoKeys EXCEPT !.place_id = <<"p">>, !.sources = <<"NYT", "NYM">>,
                     !.nyt_rank = 1, !.nym_rank = 2, !.combined_order = 1],
      [NoKeys EXCEPT !.place_id = <<"q">>, !.sources = <<"NYM">>, !.nym_rank = 1,
                     !.combined_order = 101],
      [NoKeys EXCEPT !.place_id = <<"q">>, !.sources = <<"NYM">>, !.nym_rank = 2,
                     !.combined_order = 102],
      [NoKeys EXCEPT !.place_id = <<"q">>, !.sources = <<"NYT">>, !.nyt_rank = 99,
                     !.combined_order = 99],
      [NoKeys EXCEPT !.place_id = <<"r">>, !.sources = <<"NYT">>, !.nyt_rank = 2,
                     !.combined_order = 2] }

InitRanked ==
    /\ pc = "dedup"
    /\ restaurants \in SeqUpTo(RankedSamples, MaxRanked)
    /\ by_place_id = << >>
    /\ duplicates_found = << >>
    /\ deduplicated = << >>
    /\ rededuplicated = << >>
    /\ IdleMerge /\ IdleMatch /\ IdleFields /\ IdleNormalize /\ IdleEnrich /\ IdleMain

SpecRanked == InitRanked /\ [][NextDedup]_vars

\* the two programs that assign and sort by combined_order
InitOrder == InitMerge \/ InitRanked

NextOrder == NextMerge \/ NextDedup

SpecOrder == InitOrder /\ [][NextOrder]_vars

---------------------------------------------------------------------------
(* Properties of the ordering *)

\* the records merge_restaurant_data built for the groups of a finished run
MergedGroups == merge_groups(SelectSeq(by_place_id, LAMBDA g : Len(g.group) > 1))

IsSecondaryOnly(restaurant) ==
    /\ ~HasRank(restaurant.nyt_rank)
    /\ HasRank(restaurant.nym_rank) /\ restaurant.nym_rank >= 1

\* both have an integer combined_order and the first one's is smaller
OrderedBefore(a, b) ==
    /\ HasRank(a.combined_order) /\ HasRank(b.combined_order)
    /\ a.combined_order < b.combined_order

IsMonotonic(list) ==
    \A i, j \in 1..Len(list) :
        /\ (HasRank(list[i].nyt_rank) /\ HasRank(list[j].nyt_rank)
                /\ list[i].nyt_rank < list[j].nyt_rank)
               => OrderedBefore(list[i], list[j])
        /\ (list[i].nyt_rank \in 1..(NymOffset - 1) /\ IsSecondaryOnly(list[j]))
               => OrderedBefore(list[i], list[j])

\* C15: of two records with NYT ranks the one with the smaller rank has the
\* smaller combined_order, and a record with an NYT rank below 100 has a
\* smaller combined_order than every record that has only an NYM rank; for
\* the records merge_restaurant_lists returns and for the records
\* merge_restaurant_data builds.
C15_OrderMonotonic ==
    /\ pc = "merge_done" => IsMonotonic(merged)
    /\ pc = "dedup_done" => IsMonotonic(MergedGroups)

\* a merge returned two records with different NYT ranks and a record with
\* only an NYM rank
C15_Witness ==
    /\ pc = "merge_done"
    /\ \E i, j, k \in 1..Len(merged) :
           /\ HasRank(merged[i].nyt_rank) /\ HasRank(merged[j].nyt_rank)
           /\ merged[i].nyt_rank < merged[j].nyt_rank
           /\ IsSecondaryOnly(merged[k])

\* a deduplication built two records from groups, one with an NYT rank and
\* one with only an NYM rank
C15_GroupsReached ==
    /\ pc = "dedup_done"
    /\ \E i, j \in 1..Len(MergedGroups) :
           /\ MergedGroups[i].nyt_rank \in 1..(NymOffset - 1)
           /\ IsSecondaryOnly(MergedGroups[j])

\* the records of list whose sort key is key, in the order of list
WithKey(list, key) == SelectSeq(list, LAMBDA r : sort_key(r) = key)

\* sorted is before rearranged into non-decreasing key order with the
\* records of equal key left in the order they have in before
IsStableSortOf(sorted, before) ==
    /\ Len(sorted) = Len(before)
    /\ \A i, j \in 1..Len(sorted) : i < j => sort_key(sorted[i]) <= sort_key(sorted[j])
    /\ \A k \in 1..Len(before) :
           WithKey(sorted, sort_key(before[k])) = WithKey(before, sort_key(before[k]))

\* merged before the sort: the primary records in input order, then the
\* standalone secondary records in input order
IsPrimaryThenStandalone(list) ==
    /\ Len(list) >= Len(nyt_restaurants)
    /\ \A k \in 1..Len(list) :
           Contains(list[k].sources, "NYT") <=> k <= Len(nyt_restaurants)
    /\ \A k \in 1..Len(nyt_restaurants) : list[k].name = nyt_restaurants[k].name
    /\ LET kept == {i \in 1..Len(match_log) : match_log[i] = NoneN}
       IN  /\ Cardinality(kept) = Len(list) - Len(nyt_restaurants)
           /\ \A i \in kept :
                  LET pos == Len(nyt_restaurants)
                                 + Cardinality({h \in kept : h <= i})
                  IN  list[pos].name = Get(nym_restaurants[i].name)

\* C16: the list merge_restaurant_lists returns and the list
\* deduplicate_restaurants returns are in non-decreasing combined_order (the
\* sort key), and records of equal combined_order are in the order they had
\* before the sort: primary records then standalone secondary records, each
\* in input order, for the merge; first occurrence of the key for the
\* deduplication.
C16_StableAscendingOrder ==
    /\ pc = "merge_done" =>
           IsStableSortOf(merged, unsorted) /\ IsPrimaryThenStandalone(unsorted)
    /\ pc = "dedup_done" =>
           IsStableSortOf(deduplicated, merge_groups(by_place_id))

\* a merge returned a list in which the sort moved a record and two records
\* have the same combined_order
C16_Witness ==
    /\ pc = "merge_done"
    /\ merged # unsorted
    /\ \E i, j \in 1..Len(merged) : i < j /\ sort_key(merged[i]) = sort_key(merged[j])

\* a deduplication merged a group, the sort moved a record and two different
\* records have the same combined_order
C16_DedupReached ==
    /\ pc = "dedup_done"
    /\ Len(duplicates_found) > 0
    /\ deduplicated # merge_groups(by_place_id)
    /\ \E i, j \in 1..Len(deduplicated) :
           /\ i < j /\ deduplicated[i] # deduplicated[j]
           /\ sort_key(deduplicated[i]) = sort_key(deduplicated[j])

\* C17: every record deduplicate_restaurants returns has the combined_order
\* the order rule gives for its own nyt_rank and nym_rank, whether it was
\* built from a group or is the only record of its group.
C17_OutputOrderRecomputed ==
    pc = "dedup_done" =>
        \A k \in 1..Len(deduplicated) :
            deduplicated[k].combined_order = OrderRule(deduplicated[k])

---------------------------------------------------------------------------
(* normalize_name, normalize_address: the strings they are run on *)

MaxText == 3

TextChars == {"a", "A", " ", ".", "&"}

\* the conjunction written out
And == <<"a", "n", "d">>

\* name with every & written as and
RECURSIVE WrittenWithAnd(_)
WrittenWithAnd(name) ==
    IF name = << >> THEN << >>
    ELSE (IF Head(name) = "&" THEN And ELSE <<Head(name)>>) \o WrittenWithAnd(Tail(name))

\* a name or address, and the same with & written as and
InitNormalize ==
    /\ pc = "normalize"
    /\ \E s \in SeqUpTo(TextChars, MaxText) : texts = <<s, WrittenWithAnd(s)>>
    /\ normalized = << >>
    /\ renormalized = << >>
    /\ IdleMerge /\ IdleMatch /\ IdleDedup /\ IdleFields /\ IdleEnrich /\ IdleMain

\* normalize_name and normalize_address of each string
Normalize ==
    /\ pc = "normalize"
    /\ pc' = "normalize_done"
    /\ normalized' = [k \in 1..Len(texts) |->
                         [name |-> normalize_name(texts[k]),
                          address |-> normalize_address(texts[k])]]
    /\ UNCHANGED <<texts, renormalized>>
    /\ UNCHANGED <<mergeVars, matchVars, dedupVars, fieldVars, enrichVars, mainVars>>

\* normalize_name and normalize_address of the keys
NormalizeAgain ==
    /\ pc = "normalize_done"
    /\ pc' = "renormalize_done"
    /\ renormalized' = [k \in 1..Len(normalized) |->
                           [name |-> normalize_name(normalized[k].name),
                            address |-> normalize_address(normalized[k].address)]]
    /\ UNCHANGED <<texts, normalized>>
    /\ UNCHANGED <<mergeVars, matchVars, dedupVars, fieldVars, enrichVars, mainVars>>

NextNormalize == Normalize \/ NormalizeAgain

SpecNormalize == InitNormalize /\ [][NextNormalize]_vars

---------------------------------------------------------------------------
(* Properties of the normalizer *)

\* C18: normalize_name and normalize_address are idempotent: the key of a
\* key is that key.
C18_NormalizeIdempotent ==
    pc = "renormalize_done" => renormalized[1] = normalized[1]

\* C19: a name written with & and the same name written with and have the
\* same normalize_name key.
C19_AmpersandIsAnd ==
    pc = "normalize_done" => normalized[1].name = normalized[2].name

---------------------------------------------------------------------------
(* merge_restaurant_data: groups of ranked records *)

SampleNytRanks == {AbsentN, NoneN, 1, 2}
SampleNymRanks == {AbsentN, NoneN, 3, 4}
RankGroupSamples ==
    {[NoKeys EXCEPT !.place_id = <<"p">>, !.nyt_rank = a, !.nym_rank = b] :
        a \in SampleNytRanks, b \in SampleNymRanks}

InitRankGroups ==
    /\ pc = "fields"
    /\ group \in SeqUpTo(RankGroupSamples, MaxGroup)
    /\ merged_record = NoKeys
    /\ IdleMerge /\ IdleMatch /\ IdleDedup /\ IdleNormalize /\ IdleEnrich /\ IdleMain

SpecRankGroups == InitRankGroups /\ [][NextFields]_vars

---------------------------------------------------------------------------
(* Properties of the merged ranks *)

GroupNytRanks == {group[k].nyt_rank : k \in {j \in 1..Len(group) : HasRank(group[j].nyt_rank)}}
GroupNymRanks == {group[k].nym_rank : k \in {j \in 1..Len(group) : HasRank(group[j].nym_rank)}}

\* merged_rank is the least of ranks, or what the base has when no record
\* has a rank
IsGroupMinimum(merged_rank, ranks, base_rank) ==
    IF ranks = {} THEN merged_rank = base_rank
    ELSE merged_rank \in ranks /\ \A r \in ranks : merged_rank <= r

\* C20: the nyt_rank (nym_rank) of the record merge_restaurant_data returns
\* is the least nyt_rank (nym_rank) of the records of the group that have
\* one; it is missing or None only if no record of the group has one.
C20_MergedRankIsGroupMinimum ==
    (pc = "fields_done" /\ Len(group) >= 1) =>
        /\ IsGroupMinimum(merged_record.nyt_rank, GroupNytRanks, group[1].nyt_rank)
        /\ IsGroupMinimum(merged_record.nym_rank, GroupNymRanks, group[1].nym_rank)

\* a group was merged whose least nyt_rank is not the base's, and whose base
\* has no nym_rank while a later record has one
C20_Witness ==
    /\ pc = "fields_done"
    /\ \E k \in 2..Len(group) :
           /\ HasRank(group[1].nyt_rank) /\ HasRank(group[k].nyt_rank)
           /\ group[k].nyt_rank < group[1].nyt_rank
    /\ ~HasRank(group[1].nym_rank) /\ GroupNymRanks # {}

---------------------------------------------------------------------------
(* merge_restaurant_data: groups of records with descriptive fields *)

\* line 55-56
ScalarFields ==
    {"name", "description", "formatted_address", "website", "phone",
     "google_maps_url", "cuisine", "price_range", "image_url"}

SampleTexts == {Absent, << >>, <<"a">>, <<"b">>}
SampleLinks == {None, <<"w">>, <<"v">>}
ScalarGroupSamples ==
    {[NoKeys EXCEPT !.place_id = <<"p">>,
                    !.name = x, !.formatted_address = x, !.phone = x,
                    !.cuisine = x, !.image_url = x,
                    !.description = y, !.website = y, !.google_maps_url = y,
                    !.price_range = y] :
        x \in SampleTexts, y \in SampleLinks}

InitScalarGroups ==
    /\ pc = "fields"
    /\ group \in SeqUpTo(ScalarGroupSamples, MaxGroup)
    /\ merged_record = NoKeys
    /\ IdleMerge /\ IdleMatch /\ IdleDedup /\ IdleNormalize /\ IdleEnrich /\ IdleMain

SpecScalarGroups == InitScalarGroups /\ [][NextFields]_vars

---------------------------------------------------------------------------
(* Properties of the merged descriptive fields *)

\* the records of the group whose field is not empty
Suppliers(field) == {k \in 1..Len(group) : Truthy(Get(group[k][field]))}

\* the value of the first record of the group whose field is not empty, or
\* the base's value when there is none
FirstNonEmpty(field) ==
    IF Suppliers(field) = {} THEN group[1][field]
    ELSE group[CHOOSE k \in Suppliers(field) : \A h \in Suppliers(field) : k <= h][field]

\* C21: for each scalar descriptive field the record merge_restaurant_data
\* returns has the base's value when that is not empty, and otherwise the
\* value of the earliest later record whose value is not empty.
C21_FirstNonEmptyWins ==
    (pc = "fields_done" /\ Len(group) >= 1) =>
        \A field \in ScalarFields : merged_record[field] = FirstNonEmpty(field)

\* a group was merged in which the base has an empty name and two later
\* records have different names, and the base has a link that a later record
\* has differently
C21_Witness ==
    /\ pc = "fields_done"
    /\ Len(group) = 3
    /\ ~Truthy(Get(group[1].name))
    /\ Truthy(Get(group[2].name)) /\ Truthy(Get(group[3].name))
    /\ group[2].name # group[3].name
    /\ Truthy(Get(group[1].website)) /\ Truthy(Get(group[2].website))
    /\ group[1].website # group[2].website

---------------------------------------------------------------------------
(* deduplicate_restaurants run on the list merge_restaurant_lists returned *)

\* deduplicate_restaurants.py lines 139-140: the list is loaded; the
\* enrichment between the two scripts leaves a record as it is when the
\* lookup finds nothing
LoadMerged ==
    /\ pc = "merge_done"
    /\ pc' = "dedup"
    /\ restaurants' = merged
    /\ UNCHANGED <<by_place_id, duplicates_found, deduplicated, rededuplicated>>
    /\ UNCHANGED <<mergeVars, matchVars, fieldVars, normVars, enrichVars, mainVars>>

NextPipeline == NextMerge \/ LoadMerged \/ NextDedup

SpecPipeline == InitMerge /\ [][NextPipeline]_vars

\* C22: deduplicate_restaurants does not raise on a list that
\* merge_restaurant_lists returned.
C22_DedupNeverRaisesOnMerged ==
    pc # "dedup_raised"

---------------------------------------------------------------------------
(* enrich_nym_restaurants.py, enrich_with_places_api.py,                  *)
(* update_restaurant_data.py: the Places API lookup of one record         *)

\* what places/{place_id} answered: returned is "None" when the request
\* failed, "dict" for response.json(); a key the answer lacks is Absent or
\* AbsentN; rating_kind tells whether rating is a dict with a value, a
\* number, null, or absent; latitude and longitude are the keys of location,
\* periods and openNow those of regularOpeningHours, editorial_text the text
\* of editorialSummary
EmptyDetails ==
    [returned |-> "dict", id |-> Absent, rating_kind |-> "absent", rating |-> AbsentN,
     userRatingCount |-> AbsentN, formattedAddress |-> Absent,
     latitude |-> AbsentN, longitude |-> AbsentN,
     periods |-> AbsentN, openNow |-> AbsentN,
     websiteUri |-> Absent, nationalPhoneNumber |-> Absent, googleMapsUri |-> Absent,
     editorial_text |-> Absent]

NoneDetails == [EmptyDetails EXCEPT !.returned = "None"]

\* the truth value of details: None and {} are false
DetailsFound(details) == details.returned = "dict" /\ details # EmptyDetails

\* the truth value of details.get('location', {})
HasLocation(details) == details.latitude # AbsentN \/ details.longitude # AbsentN

\* the truth value of details.get('regularOpeningHours', {})
HasOpeningHours(details) == details.periods # AbsentN \/ details.openNow # AbsentN

\* what places:searchText gave: returned is "None" when the request failed
\* or no result is in New York, "dict" for the best result
NoneSearch == [returned |-> "None", id |-> Absent]

\* enrich_nym_restaurants.py lines 32-112, enrich_with_places_api.py lines
\* 32-109: None without the API key
search_place_by_name(api) == IF ~api.api_key THEN NoneSearch ELSE api.search

\* enrich_nym_restaurants.py lines 115-138, enrich_with_places_api.py lines
\* 112-135, update_restaurant_data.py lines 23-46: None without the API key
get_place_details(api) == IF ~api.api_key THEN NoneDetails ELSE api.details

\* lines 183-189 of enrich_nym_restaurants.py: the value of rating
rating_value(details) ==
    IF details.rating_kind = "number" THEN details.rating
    ELSE GetN(details.rating)

\* enrich_nym_restaurants.py lines 179-225: the record after the assignments
nym_details_applied(restaurant, place_id, details, now) ==
    LET rated == details.rating_kind \in {"absent", "dict", "number"}
    IN  [restaurant EXCEPT
            !.place_id = place_id,
            !.google_rating = IF rated THEN rating_value(details) ELSE @,
            !.rating = IF rated THEN rating_value(details) ELSE @,
            !.google_review_count = GetN(details.userRatingCount),
            !.review_count = GetN(details.userRatingCount),
            !.formatted_address =
                IF Truthy(Get(details.formattedAddress)) THEN details.formattedAddress ELSE @,
            !.latitude = IF HasLocation(details) THEN GetN(details.latitude) ELSE @,
            !.longitude = IF HasLocation(details) THEN GetN(details.longitude) ELSE @,
            !.opening_hours =
                IF HasOpeningHours(details) THEN GetDN(details.periods, 0) ELSE @,
            !.is_open_now = IF HasOpeningHours(details) THEN GetN(details.openNow) ELSE @,
            !.website = IF Truthy(Get(details.websiteUri)) THEN details.websiteUri ELSE @,
            !.phone = Get(details.nationalPhoneNumber),
            !.google_maps_url = Get(details.googleMapsUri),
            !.description =
                IF Truthy(Get(details.editorial_text)) THEN details.editorial_text ELSE @,
            !.last_updated = now]

\* faulty variant of enrich_nym_restaurant: the place_id is stored as soon as
\* the search gave one
enrich_nym_restaurant_early_id(restaurant, api) ==
    IF Truthy(Get(restaurant.place_id)) THEN restaurant
    ELSE LET search_result == search_place_by_name(api)
             details == get_place_details(api)
         IN  IF search_result.returned = "None" THEN restaurant
             ELSE IF ~Truthy(Get(search_result.id)) THEN restaurant
             ELSE IF ~DetailsFound(details)
                  THEN [restaurant EXCEPT !.place_id = search_result.id]
             ELSE nym_details_applied(restaurant, search_result.id, details, api.now)

\* enrich_nym_restaurants.py lines 147-231
enrich_nym_restaurant(restaurant, api) ==
    IF Truthy(Get(restaurant.place_id)) THEN restaurant
    ELSE LET search_result == search_place_by_name(api)
             details == get_place_details(api)
         IN  IF search_result.returned = "None" THEN restaurant
             ELSE IF ~Truthy(Get(search_result.id)) THEN restaurant
             ELSE IF ~DetailsFound(details) THEN restaurant
             ELSE nym_details_applied(restaurant, search_result.id, details, api.now)

\* enrich_with_places_api.py lines 173-203: the record after the assignments
data_details_applied(restaurant, place_id, details, now) ==
    [restaurant EXCEPT
        !.place_id = place_id,
        !.google_rating =
            IF details.rating_kind = "null" THEN NoneN ELSE rating_value(details),
        !.google_review_count = GetN(details.userRatingCount),
        !.formatted_address = Get(details.formattedAddress),
        !.latitude = IF HasLocation(details) THEN GetN(details.latitude) ELSE @,
        !.longitude = IF HasLocation(details) THEN GetN(details.longitude) ELSE @,
        !.opening_hours = IF HasOpeningHours(details) THEN GetDN(details.periods, 0) ELSE @,
        !.is_open_now = IF HasOpeningHours(details) THEN GetN(details.openNow) ELSE @,
        !.website = Get(details.websiteUri),
        !.phone = Get(details.nationalPhoneNumber),
        !.google_maps_url = Get(details.googleMapsUri),
        !.last_updated = now]

\* enrich_with_places_api.py lines 142-217
enrich_restaurant_data(restaurant, api) ==
    LET search_result == search_place_by_name(api)
        details == get_place_details(api)
    IN  IF search_result.returned = "None" THEN restaurant
        ELSE IF ~Truthy(Get(search_result.id)) THEN restaurant
        ELSE IF ~DetailsFound(details) THEN restaurant
        ELSE data_details_applied(restaurant, search_result.id, details, api.now)

\* enrich_with_places_api.py lines 145, 150: restaurant['name'] raises
\* KeyError when the record has no name
enrich_restaurant_data_raises(restaurant, api) == restaurant.name = Absent

\* update_restaurant_data.py lines 49-88
update_restaurant_data(restaurant, api) ==
    LET details == get_place_details(api)
    IN  IF ~Truthy(Get(restaurant.place_id)) THEN restaurant
        ELSE IF ~DetailsFound(details) THEN restaurant
        ELSE [data_details_applied(restaurant, restaurant.place_id, details, api.now)
                 EXCEPT !.google_rating = GetN(details.rating)]

\* update_restaurant_data.py lines 54, 57: restaurant['name'] raises KeyError;
\* line 66: details.get('rating', {}).get('value') raises AttributeError when
\* rating is a number or null
update_restaurant_data_raises(restaurant, api) ==
    \/ restaurant.name = Absent
    \/ /\ Truthy(Get(restaurant.place_id))
       /\ DetailsFound(get_place_details(api))
       /\ get_place_details(api).rating_kind \in {"number", "null"}

\* one call of enrich_nym_restaurant
EnrichNymRestaurant ==
    /\ pc = "lookup"
    /\ pc' = "enrich_nym_done"
    /\ enriched_restaurant' = enrich_nym_restaurant(place_record, places_api)
    /\ UNCHANGED <<places_api, place_record>>
    /\ UNCHANGED <<mergeVars, matchVars, dedupVars, fieldVars, normVars, mainVars>>

\* one call of enrich_restaurant_data
EnrichRestaurantData ==
    /\ pc = "lookup"
    /\ IF enrich_restaurant_data_raises(place_record, places_api)
       THEN pc' = "enrich_data_raised" /\ UNCHANGED enriched_restaurant
       ELSE /\ pc' = "enrich_data_done"
            /\ enriched_restaurant' = enrich_restaurant_data(place_record, places_api)
    /\ UNCHANGED <<places_api, place_record>>
    /\ UNCHANGED <<mergeVars, matchVars, dedupVars, fieldVars, normVars, mainVars>>

\* one call of update_restaurant_data
UpdateRestaurantData ==
    /\ pc = "lookup"
    /\ IF update_restaurant_data_raises(place_record, places_api)
       THEN pc' = "update_raised" /\ UNCHANGED enriched_restaurant
       ELSE /\ pc' = "update_done"
            /\ enriched_restaurant' = update_restaurant_data(place_record, places_api)
    /\ UNCHANGED <<places_api, place_record>>
    /\ UNCHANGED <<mergeVars, matchVars, dedupVars, fieldVars, normVars, mainVars>>

---------------------------------------------------------------------------
(* the Places API lookup: the records and the answers it is run on *)

\* answers of places:searchText
SearchSamples ==
    { NoneSearch,
      [returned |-> "dict", id |-> Absent],
      [returned |-> "dict", id |-> <<"p">>] }

\* answers of places/{place_id}
DetailsSamples ==
    { NoneDetails,
      EmptyDetails,
      [EmptyDetails EXCEPT !.id = <<"p">>],
      [EmptyDetails EXCEPT !.id = <<"p">>, !.rating_kind = "dict", !.rating = 45,
                           !.formattedAddress = <<"9", " ", "y">>],
      [EmptyDetails EXCEPT !.id = <<"p">>, !.rating_kind = "number", !.rating = 45,
                           !.userRatingCount = 120,
                           !.formattedAddress = <<"9", " ", "y">>,
                           !.latitude = 40, !.longitude = -74,
                           !.periods = 1, !.openNow = 1,
                           !.websiteUri = <<"u">>, !.nationalPhoneNumber = <<"5">>,
                           !.googleMapsUri = <<"m">>, !.editorial_text = <<"e">>] }

\* GOOGLE_PLACES_API_KEY set or not, the two answers, and the time of the call
ApiSamples ==
    [api_key : BOOLEAN, search : SearchSamples, details : DetailsSamples, now : {2}]

\* records of restaurants_parsed.json, restaurants_merged.json and
\* restaurants_enriched.json
PlaceRecordSamples ==
    { [NoKeys EXCEPT !.name = <<"a">>, !.rank = 1, !.rating = 42, !.review_count = 250,
                     !.website = <<"w">>, !.formatted_address = <<"1", " ", "x">>],
      new_restaurant([NoKeys EXCEPT !.name = <<"c">>, !.nym_rank = 1,
                                    !.address = <<"2", " ", "x">>]),
      [NoKeys EXCEPT !.name = <<"b">>, !.place_id = <<"q">>, !.rank = 2, !.rating = 42,
                     !.google_rating = 46, !.formatted_address = <<"1", " ", "x">>,
                     !.website = <<"w">>, !.phone = <<"5">>, !.last_updated = 1],
      [NoKeys EXCEPT !.rank = 3, !.rating = 42, !.place_id = <<"q">>] }

InitLookup ==
    /\ pc = "lookup"
    /\ places_api \in ApiSamples
    /\ place_record \in PlaceRecordSamples
    /\ enriched_restaurant = NoKeys
    /\ IdleMerge /\ IdleMatch /\ IdleDedup /\ IdleFields /\ IdleNormalize /\ IdleMain

NextLookup == EnrichNymRestaurant \/ EnrichRestaurantData \/ UpdateRestaurantData

SpecLookup == InitLookup /\ [][NextLookup]_vars

---------------------------------------------------------------------------
(* Properties of the lookup *)

\* no API key, no search result, a result without id, or no details
SearchOrDetailsFails ==
    \/ ~places_api.api_key
    \/ places_api.search.returned = "None"
    \/ ~Truthy(Get(places_api.search.id))
    \/ ~DetailsFound(places_api.details)

\* update_restaurant_data looks up the details only
DetailsFails == ~places_api.api_key \/ ~DetailsFound(places_api.details)

\* C23: when the lookup fails, enrich_nym_restaurant, enrich_restaurant_data
\* and update_restaurant_data return the record with every field as it was,
\* and do not raise.
C23_FailedLookupLeavesRecord ==
    /\ SearchOrDetailsFails =>
           /\ pc # "enrich_data_raised"
           /\ pc \in {"enrich_nym_done", "enrich_data_done"} =>
                  enriched_restaurant = place_record
    /\ DetailsFails =>
           /\ pc # "update_raised"
           /\ pc = "update_done" => enriched_restaurant = place_record

\* the same for the calls that returned
C23_ReturnedRecordUnchanged ==
    /\ (SearchOrDetailsFails /\ pc \in {"enrich_nym_done", "enrich_data_done"}) =>
           enriched_restaurant = place_record
    /\ (DetailsFails /\ pc = "update_done") => enriched_restaurant = place_record

\* a lookup succeeded and changed the record
C23_LookupSucceeded ==
    /\ pc \in {"enrich_nym_done", "enrich_data_done", "update_done"}
    /\ enriched_restaurant # place_record


-----------------------------------------------------------------------------
(* The three functions of the merge engine, each started on its own inputs *)

InitEngine == InitMerge \/ InitDedup \/ InitFields

NextEngine == NextMerge \/ NextDedup \/ NextFields

SpecEngine == InitEngine /\ [][NextEngine]_vars

C24_GroupMerged ==
    /\ pc \in {"fields_done", "dedup_done"}
    /\ \/ Len(group) > 1 /\ merged_record # group[1]
       \/ Len(deduplicated) < Len(restaurants)


-----------------------------------------------------------------------------
(* merge_restaurant_lists on one NYT record and NYM records of the same name,
   over the values the address and the website of each can have *)

BackfillNytSamples ==
    { [NoKeys EXCEPT !.name = <<"a">>, !.rank = 1, !.cuisine = <<"c">>,
                     !.formatted_address = x, !.website = y] :
        x \in {Absent, << >>, <<"1", " ", "x">>}, y \in {Absent, None, <<"w">>} }

BackfillNymSamples ==
    { [NoKeys EXCEPT !.name = <<"a">>, !.nym_rank = 1, !.cuisine = <<"d">>,
                     !.address = x, !.website = y] :
        x \in {Absent, <<"2", " ", "y">>}, y \in {Absent, << >>, <<"v">>} }

InitBackfill ==
    /\ pc = "merge_nyt"
    /\ nyt_restaurants \in {<<r>> : r \in BackfillNytSamples}
    /\ nym_restaurants \in {<<s>> : s \in BackfillNymSamples}
                             \cup {<<s, t>> : s, t \in BackfillNymSamples}
    /\ merged = << >> /\ unsorted = << >> /\ nym_i = 0 /\ match_log = << >>
    /\ IdleMatch /\ IdleDedup /\ IdleFields /\ IdleNormalize /\ IdleEnrich /\ IdleMain

SpecBackfill == (InitMerge \/ InitBackfill) /\ [][NextMerge]_vars

\* the fields lines 135-142 may write to
AbsorbedFields == {"sources", "nym_rank", "formatted_address", "website"}

\* the value a backfilled field of the base has after a match: the base's own
\* when it is not empty, else the NYM record's when that is not empty
Backfilled(own, supplied) ==
    IF Truthy(Get(own)) THEN own
    ELSE IF Truthy(Get(supplied)) THEN supplied ELSE own

\* C25: when a secondary record matches a base record in merge_restaurant_lists,
\* the base record gains the tag NYM and the secondary's nym_rank, its
\* formatted_address and website are each set from the secondary record only if
\* the base value is empty or missing (a non-empty one is never overwritten), and
\* every other field of the base record is left unchanged.
C25_MatchBackfillsOnly ==
    [][(pc = "merge_nym" /\ nym_i' = nym_i + 1 /\ match_log'[nym_i'] # NoneN) =>
          LET idx == match_log'[nym_i']
              nym_restaurant == nym_restaurants[nym_i']
              base == merged[idx]
              matched == merged'[idx]
          IN  /\ Len(merged') = Len(merged)
              /\ matched.sources = Append(base.sources, "NYM")
              /\ matched.nym_rank = GetN(nym_restaurant.nym_rank)
              /\ matched.formatted_address =
                     Backfilled(base.formatted_address, nym_restaurant.address)
              /\ matched.website = Backfilled(base.website, nym_restaurant.website)
              /\ \A field \in (DOMAIN base) \ AbsorbedFields :
                     matched[field] = base[field]]_vars

\* a base record with a website of its own has just absorbed an NYM record that
\* has another website and another address
C25_Witness ==
    /\ pc = "merge_nym" /\ nym_i > 0 /\ match_log[nym_i] # NoneN
    /\ LET idx == match_log[nym_i]
           nym_restaurant == nym_restaurants[nym_i]
       IN  /\ idx <= Len(nyt_restaurants)
           /\ Truthy(Get(nyt_restaurants[idx].website))
           /\ Truthy(Get(nyt_restaurants[idx].formatted_address))
           /\ Truthy(Get(nym_restaurant.website))
           /\ Truthy(Get(nym_restaurant.address))
           /\ nym_restaurant.website # nyt_restaurants[idx].website
           /\ "NYM" \in {merged[idx].sources[k] : k \in 1..Len(merged[idx].sources)}

\* a base record without address and website has just been given the NYM record's
C25_FilledFromNym ==
    /\ pc = "merge_nym" /\ nym_i > 0 /\ match_log[nym_i] # NoneN
    /\ LET idx == match_log[nym_i]
       IN  /\ idx <= Len(nyt_restaurants)
           /\ ~Truthy(Get(nyt_restaurants[idx].website))
           /\ ~Truthy(Get(nyt_restaurants[idx].formatted_address))
           /\ merged[idx].website = nym_restaurants[nym_i].website
           /\ merged[idx].formatted_address = nym_restaurants[nym_i].address
           /\ Truthy(Get(merged[idx].website))


-----------------------------------------------------------------------------
(* merge_restaurant_data on groups over the values the coordinates can have *)

SampleLatitudes == {AbsentN, NoneN, 1, 2}
SampleLongitudes == {AbsentN, NoneN, 3, 4}

CoordinateGroupSamples ==
    { [NoKeys EXCEPT !.name = <<"a">>, !.place_id = <<"p">>,
                     !.latitude = x, !.longitude = y] :
        x \in SampleLatitudes, y \in SampleLongitudes }

InitCoordinateGroups ==
    /\ pc = "fields"
    /\ group \in SeqUpTo(CoordinateGroupSamples, MaxGroup)
    /\ merged_record = NoKeys
    /\ IdleMerge /\ IdleMatch /\ IdleDedup /\ IdleNormalize /\ IdleEnrich /\ IdleMain

SpecCoordinateGroups == InitCoordinateGroups /\ [][NextFields]_vars

\* the coordinate is there: the key is present and its value is not None
HasCoordinate(v) == v # AbsentN /\ v # NoneN

HasBoth(r) == HasCoordinate(r.latitude) /\ HasCoordinate(r.longitude)
HasNeither(r) == ~HasCoordinate(r.latitude) /\ ~HasCoordinate(r.longitude)

SameCoordinates(r, s) == r.latitude = s.latitude /\ r.longitude = s.longitude

\* the later records of the group that supply both coordinates
CoordinateSuppliers == {k \in 2..Len(group) : HasBoth(group[k])}

\* C26: if every record of a group has latitude and longitude both present or both
\* absent, the record merge_restaurant_data produces has both or neither; a base
\* that has coordinates keeps them, and a base that lacks both takes the two
\* together from the earliest later record that supplies both.
C26_CoordinatesPaired ==
    (/\ pc = "fields_done"
     /\ group # << >>
     /\ \A k \in 1..Len(group) : HasBoth(group[k]) \/ HasNeither(group[k]))
    => /\ HasBoth(merged_record) \/ HasNeither(merged_record)
       /\ HasBoth(group[1]) => SameCoordinates(merged_record, group[1])
       /\ (HasNeither(group[1]) /\ CoordinateSuppliers # {}) =>
              SameCoordinates(merged_record, group[Min(CoordinateSuppliers)])
       /\ (HasNeither(group[1]) /\ CoordinateSuppliers = {}) => HasNeither(merged_record)

\* a base without coordinates was merged with a record without and two records
\* with different coordinates
C26_Witness ==
    /\ pc = "fields_done"
    /\ Len(group) >= 3
    /\ \A k \in 1..Len(group) : HasBoth(group[k]) \/ HasNeither(group[k])
    /\ HasNeither(group[1])
    /\ \E k \in CoordinateSuppliers :
          /\ k # Min(CoordinateSuppliers)
          /\ ~SameCoordinates(group[k], group[Min(CoordinateSuppliers)])
    /\ HasBoth(merged_record)

\* a base with coordinates was merged with a record that has other coordinates
C26_BaseKept ==
    /\ pc = "fields_done"
    /\ Len(group) >= 2
    /\ HasBoth(group[1]) /\ HasBoth(group[2])
    /\ ~SameCoordinates(group[1], group[2])
    /\ SameCoordinates(merged_record, group[1])


-----------------------------------------------------------------------------
(* merge_place_ids.py: normalize_name and find_matching_restaurant *)

\* str.replace(old, new) for an old of one character
RECURSIVE ReplaceChar(_, _, _)
ReplaceChar(s, old, new) ==
    IF s = << >> THEN << >>
    ELSE (IF Head(s) = old THEN new ELSE <<Head(s)>>) \o ReplaceChar(Tail(s), old, new)

\* " ".join(s.split())
JoinSplit(s) == strip(CollapseSpaces(s))

\* lines 12-23 of merge_place_ids.py: lines 17 and 18 each start again from name,
\* so what lines 16 and 17 computed is dropped
place_ids_normalize_name(name) ==
    IF ~Truthy(name) THEN << >>
    ELSE JoinSplit(ReplaceChar(ReplaceChar(ReplaceChar(name,
             "&", <<"a", "n", "d">>), ".", << >>), ",", << >>))

\* lines 35-39: the exact pass
place_ids_exact_matches(name, enriched_restaurants) ==
    {k \in 1..Len(enriched_restaurants) :
        name = place_ids_normalize_name(GetD(enriched_restaurants[k].name, << >>))}

\* lines 44-51: the test of the partial pass
place_ids_partial_match(name, address, enriched) ==
    LET enriched_name == place_ids_normalize_name(GetD(enriched.name, << >>))
    IN  /\ IsSubstr(name, enriched_name) \/ IsSubstr(enriched_name, name)
        /\ (Truthy(address) /\ Truthy(Get(enriched.formatted_address))) =>
               \/ IsSubstr(lower(address), lower(enriched.formatted_address))
               \/ IsSubstr(lower(enriched.formatted_address), lower(address))

\* lines 26-54 of merge_place_ids.py: the position of the record returned, or None
place_ids_find_matching_restaurant(restaurant, enriched_restaurants) ==
    LET name == place_ids_normalize_name(GetD(restaurant.name, << >>))
        address == GetD(restaurant.formatted_address, << >>)
        exact == place_ids_exact_matches(name, enriched_restaurants)
        partial == {k \in 1..Len(enriched_restaurants) :
                       place_ids_partial_match(name, address, enriched_restaurants[k])}
    IN  IF ~Truthy(name) THEN NoneN
        ELSE IF exact # {} THEN Min(exact)
        ELSE IF partial # {} THEN Min(partial)
        ELSE NoneN

\* find_matching_restaurant(query, pool) of merge_place_ids.py
PlaceIdsFindMatch ==
    /\ pc = "place_ids"
    /\ pc' = "place_ids_done"
    /\ match_idx' = place_ids_find_matching_restaurant(query, pool)
    /\ UNCHANGED <<query, pool, best_match_score>>
    /\ UNCHANGED <<mergeVars, dedupVars, fieldVars, normVars, enrichVars, mainVars>>

\* records of the merged file
PlaceQuerySamples ==
    { [NoKeys EXCEPT !.name = x, !.formatted_address = y, !.sources = <<"NYT">>] :
        x \in {Absent, None, <<"a">>, <<"A">>, <<"A", ".">>, <<" ", "a", "&">>, <<"B", "a">>},
        y \in {Absent, <<"1", " ", "b">>} }

\* records of the enriched file
PlaceEnrichedSamples ==
    { [NoKeys EXCEPT !.name = x, !.formatted_address = y, !.place_id = <<"p">>] :
        x \in {<<"a">>, <<"A">>, <<"a", "a", "n", "d">>, <<"b", "a">>},
        y \in {Absent, <<"1", " ", "B">>, <<"2", " ", "y">>} }

InitPlaceIds ==
    /\ pc = "place_ids"
    /\ query \in PlaceQuerySamples
    /\ pool \in SeqUpTo(PlaceEnrichedSamples, MaxPool)
    /\ match_idx = NoneN
    /\ best_match_score = 0
    /\ IdleMerge /\ IdleDedup /\ IdleFields /\ IdleNormalize /\ IdleEnrich /\ IdleMain

NextPlaceIds == PlaceIdsFindMatch

SpecPlaceIds == InitPlaceIds /\ [][NextPlaceIds]_vars

\* the records of the pool whose name differs from the query's in letter case at most
SameButCase == {k \in 1..Len(pool) : Truthy(query.name) /\ lower(pool[k].name) = lower(query.name)}

\* C27: normalize_name of merge_place_ids.py is case-insensitive: two names that
\* differ only in letter case normalize to the same key, so the exact pass of
\* find_matching_restaurant returns the enriched record whose name differs from
\* the query's only in case.
C27_CaseInsensitiveExactMatch ==
    (pc = "place_ids_done" /\ SameButCase # {}) =>
        /\ \A k \in SameButCase :
              place_ids_normalize_name(pool[k].name) = place_ids_normalize_name(query.name)
        /\ match_idx \in SameButCase

\* names that are equal, case included, normalize to the same key and the exact
\* pass returns the first record of that name
C27_EqualNamesMatch ==
    (pc = "place_ids_done" /\ Truthy(query.name)
       /\ \E k \in 1..Len(pool) : pool[k].name = query.name) =>
        match_idx = Min({k \in 1..Len(pool) :
                           place_ids_normalize_name(pool[k].name)
                             = place_ids_normalize_name(query.name)})

\* the query's name is in the pool in another case only, and nothing was returned
C27_CaseVariantMissed ==
    /\ pc = "place_ids_done"
    /\ SameButCase # {}
    /\ \A k \in SameButCase : pool[k].name # query.name
    /\ match_idx = NoneN


-----------------------------------------------------------------------------
(* Name matches and address disagreement *)

\* the candidates whose normalized name is equal to or substring-related with the query's
NameMatches == {k \in 1..Len(pool) : NamesRelated(k)}

\* both addresses are there and fail the tests of lines 76-88: equality,
\* substring, street number with the first 10 characters of the street
AddressesDisagree(k) ==
    /\ QueryAddress # << >>
    /\ PoolAddress(k) # << >>
    /\ QueryAddress # PoolAddress(k)
    /\ ~IsSubstr(QueryAddress, PoolAddress(k))
    /\ ~IsSubstr(PoolAddress(k), QueryAddress)
    /\ ~street_match(QueryAddress, PoolAddress(k))

\* C28: address disagreement never prevents a match: whenever the query's
\* normalized name is non-empty and some candidate's normalized name equals or is
\* substring-related with it, find_matching_restaurant returns a candidate, even
\* if the addresses of both fail every address test; the candidate returned is
\* always one of the name-matching candidates, and one whose address disagrees is
\* returned only when the address of every name-matching candidate disagrees.
C28_AddressNeverPreventsMatch ==
    (pc = "match_done" /\ QueryName # << >> /\ NameMatches # {}) =>
        /\ match_idx \in NameMatches
        /\ AddressesDisagree(match_idx) => \A k \in NameMatches : AddressesDisagree(k)

\* a candidate was returned although the addresses of the query and of every
\* name-matching candidate fail every address test
C28_Witness ==
    /\ pc = "match_done"
    /\ NameMatches # {}
    /\ \A k \in NameMatches : AddressesDisagree(k)
    /\ match_idx \in NameMatches

\* of two name-matching candidates the later one, whose address agrees, was returned
C28_AddressSelects ==
    /\ pc = "match_done"
    /\ match_idx # NoneN
    /\ \E k \in 1..(match_idx - 1) : k \in NameMatches /\ AddressesDisagree(k)
    /\ ~AddressesDisagree(match_idx)


-----------------------------------------------------------------------------
(* The order rule of merge_restaurant_lists against that of merge_restaurant_data *)

\* merge_restaurant_data is called on a group of two copies of a record that
\* merge_restaurant_lists returned, so that the group's merged sources and ranks
\* are that record's
GroupOfReturned ==
    /\ pc = "merge_done"
    /\ \E k \in 1..Len(merged) : group' = <<merged[k], merged[k]>>
    /\ pc' = "fields"
    /\ UNCHANGED merged_record
    /\ UNCHANGED <<mergeVars, matchVars, dedupVars, normVars, enrichVars, mainVars>>

NextOrderRules == NextMerge \/ GroupOfReturned \/ NextFields

SpecOrderRules == InitMerge /\ [][NextOrderRules]_vars

\* C29: the two implementations of the order rule agree: for a record of any
\* combination of tags and of present, null or absent nyt_rank and nym_rank, the
\* combined_order merge_restaurant_lists assigned to it equals the combined_order
\* merge_restaurant_data assigns to a group whose merged ranks and sources are
\* the record's.
C29_OrderRulesAgree ==
    pc = "fields_done" => merged_record.combined_order = group[1].combined_order

\* the two rules agree on every record that has the rank of each of its tags
C29_AgreeOnRankedRecords ==
    (/\ pc = "fields_done"
     /\ Contains(group[1].sources, "NYT") => HasRank(group[1].nyt_rank)
     /\ Contains(group[1].sources, "NYM") => HasRank(group[1].nym_rank))
    => merged_record.combined_order = group[1].combined_order

\* a record tagged NYT and NYM with an NYM rank and no NYT rank, on which the two
\* rules were applied
C29_RulesDiffer ==
    /\ pc = "fields_done"
    /\ Contains(group[1].sources, "NYT") /\ Contains(group[1].sources, "NYM")
    /\ ~HasRank(group[1].nyt_rank) /\ HasRank(group[1].nym_rank)
    /\ merged_record.combined_order # group[1].combined_order


-----------------------------------------------------------------------------
(* enrich_nym_restaurants.py: main *)

\* the positions of a list, in order, whose object satisfies a test given as the
\* set of the objects that pass it
RECURSIVE PositionsIn(_, _, _)
PositionsIn(list, passing, k) ==
    IF k > Len(list) THEN << >>
    ELSE (IF list[k] \in passing THEN <<list[k]>> ELSE << >>)
         \o PositionsIn(list, passing, k + 1)

\* line 255: 'NYM' in r.get('sources', [])
is_nym(r) == Contains(GetD(r.sources, << >>), "NYM")

\* lines 236-263: the key test, json.load and the two filters
MainLoad ==
    /\ pc = "main"
    /\ IF ~GOOGLE_PLACES_API_KEY
       THEN /\ pc' = "main_returned"
            /\ UNCHANGED <<objects, main_restaurants, restaurants_to_enrich>>
       ELSE /\ pc' = "main_loop"
            /\ objects' = input_file
            /\ main_restaurants' = [k \in 1..Len(input_file) |-> k]
            /\ restaurants_to_enrich' =
                   PositionsIn([k \in 1..Len(input_file) |-> k],
                               {k \in 1..Len(input_file) :
                                   /\ is_nym(input_file[k])
                                   /\ ~Truthy(Get(input_file[k].place_id))}, 1)
    /\ UNCHANGED <<GOOGLE_PLACES_API_KEY, input_file, progress, enriched_indices, output_file>>
    /\ UNCHANGED <<mergeVars, matchVars, dedupVars, fieldVars, normVars, enrichVars>>

\* lines 271-276: the first index of restaurants whose record has the name of the
\* enriched record and the tag NYM, or None
write_back_index(list, heap, enriched) ==
    LET hits == {idx \in 1..Len(list) :
                    /\ Get(heap[list[idx]].name) = Get(heap[enriched].name)
                    /\ is_nym(heap[list[idx]])}
    IN  IF hits = {} THEN NoneN ELSE Min(hits)

\* lines 271-276: restaurants after the inner loop
written_back(list, heap, enriched) ==
    IF write_back_index(list, heap, enriched) = NoneN THEN list
    ELSE [list EXCEPT ![write_back_index(list, heap, enriched)] = enriched]

\* lines 265-279: one iteration of the loop over restaurants_to_enrich;
\* enrich_nym_restaurant works on the dict itself and returns it
MainEnrichNext ==
    /\ pc = "main_loop"
    /\ progress < Len(restaurants_to_enrich)
    /\ \E api \in ApiSamples :
          /\ api.api_key = GOOGLE_PLACES_API_KEY
          /\ LET restaurant == restaurants_to_enrich[progress + 1]
                 heap == [objects EXCEPT
                             ![restaurant] = enrich_nym_restaurant(@, api)]
             IN  /\ objects' = heap
                 /\ main_restaurants' = written_back(main_restaurants, heap, restaurant)
                 /\ enriched_indices' =
                        IF write_back_index(main_restaurants, heap, restaurant) = NoneN
                        THEN enriched_indices
                        ELSE enriched_indices
                               \cup {write_back_index(main_restaurants, heap, restaurant)}
    /\ progress' = progress + 1
    /\ UNCHANGED <<pc, GOOGLE_PLACES_API_KEY, input_file, restaurants_to_enrich, output_file>>
    /\ UNCHANGED <<mergeVars, matchVars, dedupVars, fieldVars, normVars, enrichVars>>

\* lines 281-283: json.dump(restaurants, f)
MainSave ==
    /\ pc = "main_loop"
    /\ progress = Len(restaurants_to_enrich)
    /\ pc' = "main_saved"
    /\ output_file' = [k \in 1..Len(main_restaurants) |-> objects[main_restaurants[k]]]
    /\ UNCHANGED <<GOOGLE_PLACES_API_KEY, input_file, objects, main_restaurants,
                   restaurants_to_enrich, progress, enriched_indices>>
    /\ UNCHANGED <<mergeVars, matchVars, dedupVars, fieldVars, normVars, enrichVars>>

MaxLoaded == 3

\* records of restaurants_merged.json
MainRecordSamples ==
    { new_restaurant([NoKeys EXCEPT !.name = <<"a">>, !.nym_rank = 1]),
      absorb_nym(nyt_base([NoKeys EXCEPT !.name = <<"a">>, !.rank = 2]),
                 [NoKeys EXCEPT !.name = <<"a">>, !.nym_rank = 2]),
      [new_restaurant([NoKeys EXCEPT !.name = <<"a">>, !.nym_rank = 3])
          EXCEPT !.place_id = <<"q">>],
      new_restaurant([NoKeys EXCEPT !.name = <<"b">>, !.nym_rank = 4]),
      nyt_base([NoKeys EXCEPT !.name = <<"a">>, !.rank = 1]) }

InitMain ==
    /\ pc = "main"
    /\ GOOGLE_PLACES_API_KEY \in BOOLEAN
    /\ input_file \in SeqUpTo(MainRecordSamples, MaxLoaded)
    /\ objects = << >> /\ main_restaurants = << >> /\ restaurants_to_enrich = << >>
    /\ progress = 0 /\ enriched_indices = {} /\ output_file = << >>
    /\ IdleMerge /\ IdleMatch /\ IdleDedup /\ IdleFields /\ IdleNormalize /\ IdleEnrich

NextMain == MainLoad \/ MainEnrichNext \/ MainSave

SpecMain == InitMain /\ [][NextMain]_vars

\* what a loaded record can be after the pass: itself, or itself enriched
EnrichedFormsOf(r) == {r} \cup {enrich_nym_restaurant(r, api) : api \in ApiSamples}

\* C30: the enrichment pass of enrich_nym_restaurants.main preserves the record
\* list: the list written has at every position the record loaded at that
\* position (as it was, or enriched), so no record is lost or appears twice,
\* even when several NYM records without place_id share a name.
C30_ListPreserved ==
    pc = "main_saved" =>
        /\ Len(output_file) = Len(input_file)
        /\ \A k \in 1..Len(input_file) : output_file[k] \in EnrichedFormsOf(input_file[k])

\* the list is preserved whenever no two of its NYM records have the same name
C30_PreservedWithoutSharedNames ==
    (/\ pc = "main_saved"
     /\ \A j, k \in 1..Len(input_file) :
           (j # k /\ is_nym(input_file[j]) /\ is_nym(input_file[k]))
               => Get(input_file[j].name) # Get(input_file[k].name))
    => \A k \in 1..Len(input_file) : output_file[k] \in EnrichedFormsOf(input_file[k])

\* two NYM records without place_id share a name; in the list written the second
\* one is at both positions
C30_RecordLost ==
    /\ pc = "main_saved"
    /\ Len(input_file) = 2
    /\ input_file[1].name = input_file[2].name
    /\ ~Truthy(Get(input_file[1].place_id)) /\ ~Truthy(Get(input_file[2].place_id))
    /\ output_file[1] \notin EnrichedFormsOf(input_file[1])
    /\ output_file[1] = output_file[2]

=============================================================================
